---- MODULE Spec2Model ----
(***************************************************************************)
(* Breakout scoring engine, backtester, signal generator and parameter    *)
(* optimizer of the Crypto-Breakout-Screener.                              *)
(*                                                                         *)
(* Numbers.  The JavaScript code computes in IEEE doubles.  Here every     *)
(* money amount (price, moving average, ATR, stop, target) is an integer   *)
(* count of 1e-7 dollars, every ratio (band width, price change,           *)
(* thresholds) is an integer count of 1e-4, and RSI values and percentages *)
(* are integer counts of 1e-2.  Divisions round down.  JavaScript values   *)
(* that are not numbers (null, undefined, NaN) are the tagged records      *)
(* below; a number v in an array that may hold null is N(v).               *)
(***************************************************************************)
EXTENDS Integers, Sequences, FiniteSets, TLC

\* units per dollar: 1e7 (written as a product: 4 decimals times 1e3)
Round4Factor == 10000
PerDollar == Round4Factor * 1000
\* one unit of a ratio is 1e-4, of a percentage or an RSI value 1e-2
RatioOne == 100 * 100
Pct == 100

(***************************************************************************)
(* JavaScript values                                                       *)
(***************************************************************************)
Null == [t |-> "null"]
Undefined == [t |-> "undefined"]
NaN == [t |-> "nan"]
N(v) == [t |-> "num", v |-> v]
IsNum(x) == x.t = "num"
\* ToNumber for a relational comparison: null is 0; undefined and NaN are NaN
ToNum(x) == IF x.t = "num" THEN x ELSE IF x.t = "null" THEN N(0) ELSE NaN
\* a < b, a <= b, a > b, a >= b on JavaScript values: false when either is NaN
JsLe(a, b) == IsNum(ToNum(a)) /\ IsNum(ToNum(b)) /\ ToNum(a).v <= ToNum(b).v
JsGe(a, b) == JsLe(b, a)
JsLt(a, b) == IsNum(ToNum(a)) /\ IsNum(ToNum(b)) /\ ToNum(a).v < ToNum(b).v
JsGt(a, b) == JsLt(b, a)
\* truthiness of a value that is a number, null, undefined or NaN
Truthy(x) == IsNum(x) /\ x.v # 0
\* a || b
JsOr(a, b) == IF Truthy(a) THEN a ELSE b

Abs(x) == IF x < 0 THEN 0 - x ELSE x
Max2(a, b) == IF a >= b THEN a ELSE b
Min2(a, b) == IF a <= b THEN a ELSE b
Fill(n, v) == [k \in 1..n |-> v]
Last(s) == s[Len(s)]

\* Sums, maxima, minima and loops over an index range split the range in two
\* halves, so that the evaluation's depth stays logarithmic in its length.
RECURSIVE SumRange(_, _, _)
SumRange(data, a, b) ==
  IF a > b THEN 0
  ELSE IF a = b THEN data[a]
  ELSE LET m == (a + b) \div 2
       IN  SumRange(data, a, m) + SumRange(data, m + 1, b)

RECURSIVE MaxRange(_, _, _)
MaxRange(data, a, b) ==
  IF a = b THEN data[a]
  ELSE LET m == (a + b) \div 2
       IN  Max2(MaxRange(data, a, m), MaxRange(data, m + 1, b))

RECURSIVE MinRange(_, _, _)
MinRange(data, a, b) ==
  IF a = b THEN data[a]
  ELSE LET m == (a + b) \div 2
       IN  Min2(MinRange(data, a, m), MinRange(data, m + 1, b))

\* floor of the square root
RECURSIVE SqrtSearch(_, _, _)
SqrtSearch(x, lo, hi) ==
  IF lo >= hi THEN lo
  ELSE LET mid == (lo + hi + 1) \div 2
       IN  IF mid * mid <= x THEN SqrtSearch(x, mid, hi)
           ELSE SqrtSearch(x, lo, mid - 1)
Sqrt(x) == SqrtSearch(x, 0, Min2(x, 46340))

(***************************************************************************)
(* Indicator library (technicalIndicators).  JavaScript index i is index   *)
(* i + 1 here.                                                             *)
(***************************************************************************)
\* calculateSMA with a null at index period - 1 as well
SMAFromPeriod(data, period) ==
  IF Len(data) < period THEN Fill(Len(data), Null)
  ELSE [i \in 1..Len(data) |->
          IF i <= period THEN Null
          ELSE N(SumRange(data, i - period + 1, i) \div period)]

calculateSMA(data, period) ==
  IF Len(data) < period THEN Fill(Len(data), Null)
  ELSE [i \in 1..Len(data) |->
          IF i < period THEN Null
          ELSE N(SumRange(data, i - period + 1, i) \div period)]

\* the loop of calculateEMA over the indices a..b, from the loop state st:
\* ema = (data[i] - ema) * multiplier + ema; results.push(ema)
RECURSIVE EMALoop(_, _, _, _, _)
EMALoop(data, period, a, b, st) ==
  IF a > b THEN st
  ELSE IF a = b
  THEN LET e == ((data[a] - st.ema) * 2) \div (period + 1) + st.ema
       IN  [ema |-> e, results |-> Append(st.results, N(e))]
  ELSE LET m == (a + b) \div 2
           left == EMALoop(data, period, a, m, st)
       IN  \* the test holds; it has the first half evaluated first
           IF Len(left.results) > 0 THEN EMALoop(data, period, m + 1, b, left)
           ELSE left

calculateEMA(data, period) ==
  IF Len(data) < period THEN Fill(Len(data), Null)
  ELSE LET ema == SumRange(data, 1, period) \div period
       IN  EMALoop(data, period, period + 1, Len(data),
                   [ema |-> ema,
                    results |-> Append(Fill(period - 1, Null), N(ema))]).results

\* price - data[i - 1], 0 at the first index
Change(data, i) == IF i = 1 THEN 0 ELSE data[i] - data[i - 1]

\* the 0.001 that replaces a zero average loss
RsiLossFloor == PerDollar \div 1000

\* the RSI with 0.001 added to every average loss
RsiOfRaisedLoss(avgGain, avgLoss) ==
  LET rs == (avgGain * RatioOne) \div (avgLoss + RsiLossFloor)
  IN  100 * Pct - (100 * Pct * RatioOne) \div (RatioOne + rs)

\* rs = avgGain / (avgLoss === 0 ? 0.001 : avgLoss); rsi = 100 - (100 / (1 + rs))
RsiOf(avgGain, avgLoss) ==
  LET rs == (avgGain * RatioOne) \div (IF avgLoss = 0 THEN RsiLossFloor ELSE avgLoss)
  IN  100 * Pct - (100 * Pct * RatioOne) \div (RatioOne + rs)

\* gainSum and lossSum over the changes 1..period: a change > 0 is a gain,
\* any other change adds its absolute value to the losses
InitialGains(data, period) ==
  [i \in 1..period |-> IF Change(data, i + 1) > 0 THEN Change(data, i + 1) ELSE 0]
InitialLosses(data, period) ==
  [i \in 1..period |-> IF Change(data, i + 1) > 0 THEN 0 ELSE Abs(Change(data, i + 1))]

\* the loop of calculateRSI over the indices a..b, from the loop state st
RECURSIVE RSILoop(_, _, _, _, _)
RSILoop(data, period, a, b, st) ==
  IF a > b THEN st
  ELSE IF a = b
  THEN LET c == Change(data, a)
           g == ((st.avgGain * (period - 1)) + (IF c > 0 THEN c ELSE 0)) \div period
           l == ((st.avgLoss * (period - 1)) + (IF c < 0 THEN Abs(c) ELSE 0))
                  \div period
       IN  [avgGain |-> g, avgLoss |-> l,
            results |-> Append(st.results, N(RsiOf(g, l)))]
  ELSE LET m == (a + b) \div 2
           left == RSILoop(data, period, a, m, st)
       IN  \* the test holds; it has the first half evaluated first
           IF Len(left.results) > 0 THEN RSILoop(data, period, m + 1, b, left)
           ELSE left

calculateRSI(data, period) ==
  IF Len(data) < period + 1 THEN Fill(Len(data), Null)
  ELSE LET avgGain == SumRange(InitialGains(data, period), 1, period) \div period
           avgLoss == SumRange(InitialLosses(data, period), 1, period) \div period
       IN  RSILoop(data, period, period + 2, Len(data),
                   [avgGain |-> avgGain, avgLoss |-> avgLoss,
                    results |-> Append(Fill(period, Null),
                                       N(RsiOf(avgGain, avgLoss)))]).results

NullBand == [upper |-> Null, middle |-> Null, lower |-> Null, width |-> Null,
             percent |-> Null]

\* sum of (data[i - j] - sma[i])^2, the deviations taken in tens of units
SqDevSum(data, a, b, mean) ==
  SumRange([k \in 1..b |-> ((data[k] - mean) \div 10) * ((data[k] - mean) \div 10)],
           a, b)

\* a / b as a ratio; x / 0 is NaN for x = 0 and is not reached otherwise
Ratio(a, b) == IF b = 0 THEN NaN ELSE N((a * RatioOne) \div b)

BandAt(data, period, standardDeviations, i) ==
  LET sma == SumRange(data, i - period + 1, i) \div period
      stdDev == Sqrt((SqDevSum(data, i - period + 1, i, sma) \div period) * 100)
      upper == sma + standardDeviations * stdDev
      lower == sma - standardDeviations * stdDev
  IN  [upper |-> N(upper), middle |-> N(sma), lower |-> N(lower),
       width |-> Ratio(upper - lower, sma),
       percent |-> IF data[i] # 0 THEN Ratio(data[i] - lower, upper - lower)
                   ELSE Null]

calculateBollingerBands(data, period, standardDeviations) ==
  IF Len(data) < period THEN Fill(Len(data), NullBand)
  ELSE [i \in 1..Len(data) |->
          IF i < period THEN NullBand
          ELSE BandAt(data, period, standardDeviations, i)]

\* Math.max(tr1, tr2, tr3), and high - low at the first index
TrueRange(highData, lowData, closeData, i) ==
  IF i = 1 THEN highData[1] - lowData[1]
  ELSE Max2(highData[i] - lowData[i],
            Max2(Abs(highData[i] - closeData[i - 1]),
                 Abs(lowData[i] - closeData[i - 1])))

\* the loop of calculateATR over the indices a..b, from the loop state st
RECURSIVE ATRLoop(_, _, _, _, _)
ATRLoop(trueRanges, period, a, b, st) ==
  IF a > b THEN st
  ELSE IF a = b
  THEN LET atr == ((st.atr * (period - 1)) + trueRanges[a]) \div period
       IN  [atr |-> atr, results |-> Append(st.results, N(atr))]
  ELSE LET m == (a + b) \div 2
           left == ATRLoop(trueRanges, period, a, m, st)
       IN  \* the test holds; it has the first half evaluated first
           IF Len(left.results) > 0 THEN ATRLoop(trueRanges, period, m + 1, b, left)
           ELSE left

calculateATR(highData, lowData, closeData, period) ==
  IF Len(highData) < 2 \/ Len(highData) # Len(lowData)
     \/ Len(lowData) # Len(closeData)
  THEN Fill(Len(highData), Null)
  ELSE LET trueRanges == [i \in 1..Len(highData) |->
                            TrueRange(highData, lowData, closeData, i)]
       IN  IF Len(trueRanges) >= period
           THEN LET atr == SumRange(trueRanges, 1, period) \div period
                IN  ATRLoop(trueRanges, period, period + 1, Len(trueRanges),
                            [atr |-> atr,
                             results |-> Append(Fill(period - 1, Null),
                                                N(atr))]).results
           ELSE Fill(period, Null)

\* the loop of calculateOBV over the indices a..b, from the loop state st
RECURSIVE OBVLoop(_, _, _, _, _)
OBVLoop(closeData, volumeData, a, b, st) ==
  IF a > b THEN st
  ELSE IF a = b
  THEN LET obv == IF closeData[a] > closeData[a - 1] THEN st.obv + volumeData[a]
                  ELSE IF closeData[a] < closeData[a - 1] THEN st.obv - volumeData[a]
                  ELSE st.obv
       IN  [obv |-> obv, results |-> Append(st.results, N(obv))]
  ELSE LET m == (a + b) \div 2
           left == OBVLoop(closeData, volumeData, a, m, st)
       IN  \* the test holds; it has the first half evaluated first
           IF Len(left.results) > 0 THEN OBVLoop(closeData, volumeData, m + 1, b, left)
           ELSE left

calculateOBV(closeData, volumeData) ==
  IF Len(closeData) # Len(volumeData) \/ Len(closeData) = 0
  THEN Fill(Len(closeData), Null)
  ELSE OBVLoop(closeData, volumeData, 2, Len(closeData),
               [obv |-> volumeData[1], results |-> <<N(volumeData[1])>>]).results

NullMACD == [macd |-> Null, signal |-> Null, histogram |-> Null]

\* macdLine: fastEMA[i] - slowEMA[i], null where either is null
MacdLine(fastEMA, slowEMA) ==
  [i \in 1..Len(fastEMA) |->
     IF fastEMA[i] = Null \/ slowEMA[i] = Null THEN Null
     ELSE N(fastEMA[i].v - slowEMA[i].v)]

\* the number of nulls of macdLine; they lead the line
Padding(macdLine) == Cardinality({i \in 1..Len(macdLine) : macdLine[i] = Null})

\* macdLine.filter(value => value !== null)
ValidMacdValues(macdLine, padding) ==
  [k \in 1..(Len(macdLine) - padding) |-> macdLine[padding + k].v]

\* the signal line: calculateEMA of the valid values behind the padding
SignalLine(macdLine, validMacdValues, padding, signalPeriod) ==
  IF Len(validMacdValues) >= signalPeriod
  THEN Fill(padding, Null) \o calculateEMA(validMacdValues, signalPeriod)
  ELSE Fill(Len(macdLine), Null)

MacdResults(macdLine, signalLine) ==
  [i \in 1..Len(macdLine) |->
     IF macdLine[i] = Null \/ signalLine[i] = Null THEN NullMACD
     ELSE [macd |-> macdLine[i], signal |-> signalLine[i],
           histogram |-> N(macdLine[i].v - signalLine[i].v)]]

MacdWithPadding(macdLine, padding, signalPeriod) ==
  MacdResults(macdLine,
              SignalLine(macdLine, ValidMacdValues(macdLine, padding), padding,
                         signalPeriod))

MacdOfLine(macdLine, signalPeriod) ==
  MacdWithPadding(macdLine, Padding(macdLine), signalPeriod)

calculateMACD(data, fastPeriod, slowPeriod, signalPeriod) ==
  IF Len(data) < Max2(fastPeriod, slowPeriod) + signalPeriod
  THEN Fill(Len(data), NullMACD)
  ELSE MacdOfLine(MacdLine(calculateEMA(data, fastPeriod),
                           calculateEMA(data, slowPeriod)),
                  signalPeriod)

isPriceConsolidating(data, period, threshold) ==
  IF Len(data) < period THEN FALSE
  ELSE LET max == MaxRange(data, Len(data) - period + 1, Len(data))
           min == MinRange(data, Len(data) - period + 1, Len(data))
       IN  JsLe(Ratio(max - min, max), N(threshold))

isVolumeIncreasing(volumeData, threshold) ==
  IF Len(volumeData) < 2 THEN FALSE
  ELSE LET currentVolume == volumeData[Len(volumeData)]
           previousVolume == volumeData[Len(volumeData) - 1]
       IN  \* x / 0 is Infinity for x > 0, -Infinity for x < 0, NaN for x = 0
           IF previousVolume = 0 THEN currentVolume > 0
           ELSE JsGt(Ratio(currentVolume - previousVolume, previousVolume),
                     N(threshold))

detectBollingerBreakout(priceData, bbData, lookbackPeriod) ==
  IF Len(priceData) < lookbackPeriod \/ Len(bbData) < lookbackPeriod THEN FALSE
  ELSE /\ JsLe(N(priceData[Len(priceData) - 1]), bbData[Len(bbData) - 1].upper)
       /\ JsGt(N(priceData[Len(priceData)]), bbData[Len(bbData)].upper)

\* recentPrices[i] <= Math.min(...previousFive, ...nextFive), i a JavaScript index
IsPriceLow(recentPrices, i) ==
  \A k \in ((i - 5)..(i + 5)) \ {i} : recentPrices[i + 1] <= recentPrices[k + 1]

detectPositiveRSIDivergence(priceData, rsiData, lookbackPeriod) ==
  IF Len(priceData) < lookbackPeriod \/ Len(rsiData) < lookbackPeriod THEN FALSE
  ELSE LET recentPrices == SubSeq(priceData, Len(priceData) - lookbackPeriod + 1,
                                  Len(priceData))
           recentRSI == SubSeq(rsiData, Len(rsiData) - lookbackPeriod + 1,
                               Len(rsiData))
           lows == {i \in 5..(Len(recentPrices) - 6) : IsPriceLow(recentPrices, i)}
       IN  \* the loop keeps the first low and breaks at the second
           IF Cardinality(lows) < 2 THEN FALSE
           ELSE LET firstPriceLowIndex == CHOOSE i \in lows : \A k \in lows : i <= k
                    later == lows \ {firstPriceLowIndex}
                    secondPriceLowIndex == CHOOSE i \in later : \A k \in later : i <= k
                IN  /\ recentPrices[secondPriceLowIndex + 1]
                         < recentPrices[firstPriceLowIndex + 1]
                    /\ JsGt(recentRSI[secondPriceLowIndex + 1],
                            recentRSI[firstPriceLowIndex + 1])

(***************************************************************************)
(* Breakout Analyzer (breakoutDetector.analyzeBreakout)                    *)
(***************************************************************************)
\* arr[k] for a JavaScript index k: undefined outside the array
At(arr, k) == IF k >= 0 /\ k < Len(arr) THEN arr[k + 1] ELSE Undefined
AtNum(data, k) == IF k >= 0 /\ k < Len(data) THEN N(data[k + 1]) ELSE Undefined
\* obj.field of an object that may lack the field
Get(obj, field) == IF field \in DOMAIN obj THEN obj[field] ELSE Undefined
\* options.field || dflt, the options' values being numbers
Opt(options, field, dflt) ==
  IF field \in DOMAIN options /\ options[field] # 0 THEN options[field] ELSE dflt

\* a - b and a / b on JavaScript numbers (NaN when either is not a number)
JsSub(a, b) == IF IsNum(a) /\ IsNum(b) THEN N(a.v - b.v) ELSE NaN
JsRatio(a, b) == IF IsNum(a) /\ IsNum(b) THEN Ratio(a.v, b.v) ELSE NaN

\* Math.round(x * 10000) / 10000
Round4(x) == ((x + (PerDollar \div Round4Factor) \div 2)
                \div (PerDollar \div Round4Factor)) * (PerDollar \div Round4Factor)

AnalyzerConfig(options) ==
  [consolidationPeriod |-> Opt(options, "consolidationPeriod", 6),
   consolidationThreshold |-> Opt(options, "consolidationThreshold", 1500),
   rsiLowerThreshold |-> Opt(options, "rsiLowerThreshold", 50 * Pct),
   rsiUpperThreshold |-> Opt(options, "rsiUpperThreshold", 75 * Pct),
   volumeIncreaseThreshold |-> Opt(options, "volumeIncreaseThreshold", 1000),
   minBreakoutPercent |-> Opt(options, "minBreakoutPercent", 100),
   maxBreakoutPercent |-> Opt(options, "maxBreakoutPercent", 2000),
   bollingerPeriod |-> Opt(options, "bollingerPeriod", 20),
   atrPeriod |-> Opt(options, "atrPeriod", 14),
   lookbackPeriod |-> Opt(options, "lookbackPeriod", 20),
   ema200Required |-> IF "ema200Required" \in DOMAIN options
                      THEN options.ema200Required ELSE TRUE]

\* (currentATR / currentPrice) * 100 as a percentage
AtrPercentageOf(currentATR, currentPrice) ==
  IF IsNum(currentATR) /\ IsNum(currentPrice) /\ currentPrice.v # 0
  THEN N((currentATR.v * 100 * Pct) \div currentPrice.v)
  ELSE NaN
AtrPercentage(closeData, atrData) ==
  AtrPercentageOf(At(atrData, Len(atrData) - 1), AtNum(closeData, Len(closeData) - 1))

ProfitPotentialOf(atrPercentage, breakoutScore) ==
  IF JsGt(atrPercentage, N(5 * Pct)) /\ breakoutScore > 85 THEN "Very High"
  ELSE IF JsGt(atrPercentage, N(3 * Pct)) /\ breakoutScore > 75 THEN "High"
  ELSE IF JsGt(atrPercentage, N(2 * Pct)) /\ breakoutScore > 65 THEN "Medium"
  ELSE "Low"

RiskLevelOf(atrPercentage) ==
  IF JsGt(atrPercentage, N(8 * Pct)) THEN "Very High"
  ELSE IF JsGt(atrPercentage, N(5 * Pct)) THEN "High"
  ELSE IF JsGt(atrPercentage, N(3 * Pct)) THEN "Medium"
  ELSE "Low"

calculateProfitPotential(closeData, atrData, breakoutScore) ==
  IF Len(closeData) < 20 \/ At(atrData, Len(atrData) - 1) = Null THEN "Unknown"
  ELSE ProfitPotentialOf(AtrPercentage(closeData, atrData), breakoutScore)

calculateRiskLevel(closeData, atrData, breakoutScore) ==
  IF Len(closeData) < 20 \/ At(atrData, Len(atrData) - 1) = Null THEN "Unknown"
  ELSE RiskLevelOf(AtrPercentage(closeData, atrData))

\* currentOBV > previousOBV && currentOBV - previousOBV > 0.05 * previousOBV
ObvAccumulates(currentOBV, previousOBV) ==
  /\ JsGt(currentOBV, previousOBV)
  /\ IsNum(currentOBV) /\ IsNum(ToNum(previousOBV))
  /\ 100 * (currentOBV.v - ToNum(previousOBV).v) > 5 * ToNum(previousOBV).v

\* priceChange = (currentPrice - previousPrice) / previousPrice within the
\* breakout percentages
IdealBreakout(currentPrice, previousPrice, config) ==
  /\ JsGe(JsRatio(JsSub(currentPrice, previousPrice), previousPrice),
          N(config.minBreakoutPercent))
  /\ JsLe(JsRatio(JsSub(currentPrice, previousPrice), previousPrice),
          N(config.maxBreakoutPercent))

\* ConditionsOf with the comparisons of the EMA200, the MACD histogram and the
\* OBV allowing equality
ConditionsOfLoose(closeData, volumeData, rsiData, bbData, ema200, obvData, macdData, config) ==
  << isPriceConsolidating(closeData, config.consolidationPeriod,
                          config.consolidationThreshold),
     /\ At(rsiData, Len(rsiData) - 1) # Null
     /\ JsGe(At(rsiData, Len(rsiData) - 1), N(config.rsiLowerThreshold))
     /\ JsLe(At(rsiData, Len(rsiData) - 1), N(config.rsiUpperThreshold)),
     /\ At(bbData, Len(bbData) - 1) # Undefined
     /\ At(bbData, Len(bbData) - 1).width # Null
     /\ JsLe(At(bbData, Len(bbData) - 1).width, N(RatioOne)),
     detectBollingerBreakout(closeData, bbData, 10),
     IF config.ema200Required
     THEN /\ At(ema200, Len(ema200) - 1) # Null
          /\ JsGe(AtNum(closeData, Len(closeData) - 1), At(ema200, Len(ema200) - 1))
     ELSE TRUE,
     isVolumeIncreasing(volumeData, config.volumeIncreaseThreshold),
     detectPositiveRSIDivergence(closeData, rsiData, config.lookbackPeriod),
     /\ At(macdData, Len(macdData) - 1) # Undefined
     /\ At(macdData, Len(macdData) - 2) # Undefined
     /\ JsLe(At(macdData, Len(macdData) - 2).histogram, N(0))
     /\ JsGe(At(macdData, Len(macdData) - 1).histogram, N(0)),
     JsGe(At(obvData, Len(obvData) - 1), At(obvData, Len(obvData) - 5)),
     IdealBreakout(AtNum(closeData, Len(closeData) - 1),
                   AtNum(closeData, Len(closeData) - 2), config) >>

\* the ten conditions of analyzeBreakout over its indicator arrays, in the
\* order the code checks them
ConditionsOf(closeData, volumeData, rsiData, bbData, ema200, obvData, macdData, config) ==
  << isPriceConsolidating(closeData, config.consolidationPeriod,
                          config.consolidationThreshold),
     /\ At(rsiData, Len(rsiData) - 1) # Null
     /\ JsGe(At(rsiData, Len(rsiData) - 1), N(config.rsiLowerThreshold))
     /\ JsLe(At(rsiData, Len(rsiData) - 1), N(config.rsiUpperThreshold)),
     /\ At(bbData, Len(bbData) - 1) # Undefined
     /\ At(bbData, Len(bbData) - 1).width # Null
     /\ JsLe(At(bbData, Len(bbData) - 1).width, N(RatioOne)),
     detectBollingerBreakout(closeData, bbData, 10),
     IF config.ema200Required
     THEN /\ At(ema200, Len(ema200) - 1) # Null
          /\ JsGt(AtNum(closeData, Len(closeData) - 1), At(ema200, Len(ema200) - 1))
     ELSE TRUE,
     isVolumeIncreasing(volumeData, config.volumeIncreaseThreshold),
     detectPositiveRSIDivergence(closeData, rsiData, config.lookbackPeriod),
     /\ At(macdData, Len(macdData) - 1) # Undefined
     /\ At(macdData, Len(macdData) - 2) # Undefined
     /\ JsLe(At(macdData, Len(macdData) - 2).histogram, N(0))
     /\ JsGt(At(macdData, Len(macdData) - 1).histogram, N(0)),
     ObvAccumulates(At(obvData, Len(obvData) - 1), At(obvData, Len(obvData) - 5)),
     IdealBreakout(AtNum(closeData, Len(closeData) - 1),
                   AtNum(closeData, Len(closeData) - 2), config) >>

Conditions(closeData, volumeData, config) ==
  ConditionsOf(closeData, volumeData,
               calculateRSI(closeData, 14),
               calculateBollingerBands(closeData, config.bollingerPeriod, 2),
               calculateEMA(closeData, 200),
               calculateOBV(closeData, volumeData),
               calculateMACD(closeData, 12, 26, 9),
               config)

\* the points each condition adds to the score
Weights == <<20, 15, 15, 20, 10, 15, 15, 15, 10, 15>>

\* the label each condition pushes to results.signals; the fifth pushes its
\* label only when ema200Required is set
Labels == << "Price consolidation detected", "RSI in optimal range",
             "Bollinger Band compression", "Bollinger Band breakout",
             "Price above EMA200", "Volume increasing", "Positive RSI divergence",
             "MACD bullish crossover", "OBV accumulation",
             "Ideal breakout percentage" >>

RECURSIVE ScoreFrom(_, _)
ScoreFrom(conds, k) ==
  IF k > Len(conds) THEN 0
  ELSE (IF conds[k] THEN Weights[k] ELSE 0) + ScoreFrom(conds, k + 1)

\* results.signals with the label of the fifth condition pushed whenever
\* its points are added
RECURSIVE SignalsFromEvery(_, _, _)
SignalsFromEvery(conds, config, k) ==
  IF k > Len(conds) THEN << >>
  ELSE (IF conds[k] THEN <<Labels[k]>> ELSE << >>)
       \o SignalsFromEvery(conds, config, k + 1)

RECURSIVE SignalsFrom(_, _, _)
SignalsFrom(conds, config, k) ==
  IF k > Len(conds) THEN << >>
  ELSE (IF conds[k] /\ (k # 5 \/ config.ema200Required) THEN <<Labels[k]>> ELSE << >>)
       \o SignalsFrom(conds, config, k + 1)

\* the stop and the target of a candidate, set only when the latest ATR is not null
SuggestedLevels(currentPrice, currentATR, isBreakoutCandidate) ==
  IF isBreakoutCandidate /\ currentATR # Null
  THEN IF IsNum(currentATR) /\ IsNum(currentPrice)
       THEN [suggestedStopLoss |-> N(Round4(currentPrice.v - currentATR.v)),
             suggestedTakeProfit |->
               N(Round4(currentPrice.v
                        + (currentPrice.v
                           - Round4(currentPrice.v - currentATR.v)) * 3))]
       ELSE [suggestedStopLoss |-> NaN, suggestedTakeProfit |-> NaN]
  ELSE << >>

Closes(data) == [i \in 1..Len(data) |-> data[i].close]
Highs(data) == [i \in 1..Len(data) |-> data[i].high]
Lows(data) == [i \in 1..Len(data) |-> data[i].low]
Volumes(data) == [i \in 1..Len(data) |-> data[i].volume]

\* the results object, from the score and the indicator arrays
AnalysisResults(closeData, atrData, conds, config, breakoutScore) ==
  [isBreakoutCandidate |-> breakoutScore >= 70,
   breakoutScore |-> breakoutScore,
   signals |-> SignalsFrom(conds, config, 1),
   atr |-> At(atrData, Len(atrData) - 1),
   profitPotential |-> calculateProfitPotential(closeData, atrData, breakoutScore),
   riskLevel |-> calculateRiskLevel(closeData, atrData, breakoutScore)]
  @@ SuggestedLevels(AtNum(closeData, Len(closeData) - 1),
                     At(atrData, Len(atrData) - 1), breakoutScore >= 70)

\* AnalysisOf without the clamp Math.min(100, score)
AnalysisOfUnclamped(closeData, atrData, conds, config) ==
  AnalysisResults(closeData, atrData, conds, config, ScoreFrom(conds, 1))

AnalysisOf(closeData, atrData, conds, config) ==
  AnalysisResults(closeData, atrData, conds, config,
                  Min2(100, ScoreFrom(conds, 1)))

AnalyzeWith(closeData, highData, lowData, volumeData, config) ==
  AnalysisOf(closeData,
             calculateATR(highData, lowData, closeData, config.atrPeriod),
             Conditions(closeData, volumeData, config), config)

\* analyzeBreakout with the take profit at options.riskRewardRatio times the risk
TargetAtRatio(results, currentPrice, ratio) ==
  IF "suggestedTakeProfit" \in DOMAIN results
  THEN [results EXCEPT !.suggestedTakeProfit =
          N(Round4(currentPrice
                   + ((currentPrice - results.suggestedStopLoss.v) * ratio)
                       \div RatioOne))]
  ELSE results
analyzeBreakoutAtRatio(data, options) ==
  TargetAtRatio(AnalyzeWith(Closes(data), Highs(data), Lows(data), Volumes(data),
                            AnalyzerConfig(options)),
                Last(data).close, Opt(options, "riskRewardRatio", 3 * RatioOne))

analyzeBreakout(data, options) ==
  AnalyzeWith(Closes(data), Highs(data), Lows(data), Volumes(data),
              AnalyzerConfig(options))

(***************************************************************************)
(* Input histories.  A history is a quiet head of HeadBars candles at the  *)
(* price Base, then the candles of a list of events, then quiet candles up *)
(* to its length.  Every price is a multiple of 100 units.                 *)
(***************************************************************************)
Base == 2 * (PerDollar \div 100)
Quiet == Base \div 50
Volume == 10 * 100
HeadBars == 200 - 1

\* a candle closing at close, reaching up above and down below its close
Bar(close, up, down, volume) ==
  [open |-> close, high |-> close + up, low |-> close - down, close |-> close,
   volume |-> volume]

QuietBar(level) == Bar(level, Quiet, Quiet, Volume)
\* the candle the analyzer scores as a breakout: +4% on twice the volume
SpikeBar(level) == Bar(level + 2 * Quiet, Quiet, 3 * Quiet, 2 * Volume)
Spiked(level) == level + 2 * Quiet

\* the candles of one event that starts at the closing price level
EventBars(kind, level) ==
  LET s == Spiked(level)
  IN  CASE kind = "quiet" -> <<QuietBar(level)>>
        [] kind = "target" ->     \* the bar after the entry reaches far up
             <<SpikeBar(level), QuietBar(s), Bar(s, 30 * Quiet, Quiet, Volume)>>
        [] kind = "stop" ->       \* the bar after the entry reaches far down
             <<SpikeBar(level), QuietBar(s), Bar(s, Quiet, 10 * Quiet, Volume)>>
        [] kind = "both" ->       \* the bar after the entry reaches both ways
             <<SpikeBar(level), QuietBar(s), Bar(s, 30 * Quiet, 10 * Quiet, Volume)>>
        [] kind = "late" ->       \* two quiet bars, then the target
             <<SpikeBar(level), QuietBar(s), QuietBar(s), QuietBar(s),
               Bar(s, 30 * Quiet, Quiet, Volume)>>
        [] kind = "gapup" ->      \* the entry bar closes above the target
             <<SpikeBar(level), QuietBar(s + 10 * Quiet), QuietBar(s + 10 * Quiet)>>
        [] kind = "gapdown" ->    \* the entry bar closes below the stop
             <<SpikeBar(level), QuietBar(s - 6 * Quiet), QuietBar(s - 6 * Quiet)>>
        [] kind = "spike" ->      \* a breakout that stays where it is
             <<SpikeBar(level)>>
        [] kind = "last" ->       \* a breakout at bar 228, before the last bar
                                  \* of the walk over 250 candles
             [k \in 1..(228 - HeadBars) |-> QuietBar(level)] \o <<SpikeBar(level)>>

\* the closing price after an event
LevelAfter(kind, level) == Last(EventBars(kind, level)).close

RECURSIVE EventsBars(_, _)
EventsBars(events, level) ==
  IF events = << >> THEN << >>
  ELSE EventBars(Head(events), level)
       \o EventsBars(Tail(events), LevelAfter(Head(events), level))

RECURSIVE LevelAfterAll(_, _)
LevelAfterAll(events, level) ==
  IF events = << >> THEN level
  ELSE LevelAfterAll(Tail(events), LevelAfter(Head(events), level))

\* the candles of a scenario [events, length], each with its index as its time
HistoryOf(scenario) ==
  LET body == EventsBars(scenario.events, Base)
      tail == LevelAfterAll(scenario.events, Base)
  IN  [k \in 1..scenario.length |->
         [time |-> k - 1] @@
         (IF k <= HeadBars THEN QuietBar(Base)
          ELSE IF k <= HeadBars + Len(body) THEN body[k - HeadBars]
          ELSE QuietBar(tail))]

(***************************************************************************)
(* Backtester (breakoutDetector.backtestBreakoutStrategy).  A run is a     *)
(* record of the function's locals; pc is its position in the code.  The   *)
(* field decisions is a log of the analyses the run has made: it is not a  *)
(* variable of the code.                                                   *)
(***************************************************************************)
MinBars == 250
WalkStart == 200
LookForward == 20

\* the locals before the first statement runs
BtCall(scenario, options) ==
  [pc |-> "start", scenario |-> scenario, options |-> options,
   results |-> [totalTrades |-> 0, winningTrades |-> 0, losingTrades |-> 0,
                winRate |-> 0, averageProfit |-> 0, averageLoss |-> 0,
                profitFactor |-> 0, trades |-> << >>],
   totalProfit |-> 0, totalLoss |-> 0, i |-> 0, j |-> 0,
   decisions |-> << >>,
   entryPrice |-> 0, stopLoss |-> Undefined, takeProfit |-> Undefined,
   exitPrice |-> Null, exitType |-> "null", barsHeld |-> 0,
   returned |-> << >>]

\* the slice with the bar i in it: historicalData.slice(0, i + 1)
DataSliceThroughBar(historicalData, i) == SubSeq(historicalData, 1, i + 1)

\* historicalData.slice(0, i)
DataSlice(historicalData, i) == SubSeq(historicalData, 1, i)

\* BtStart with the test historicalData.length <= 250
BtStartOffByOne(run) ==
  IF Len(HistoryOf(run.scenario)) <= MinBars
  THEN [run EXCEPT !.pc = "done",
                   !.returned = [error |-> "Not enough historical data for backtest"]]
  ELSE [run EXCEPT !.pc = "loop", !.i = WalkStart]

\* if (historicalData.length < 250) return { error: ... }
BtStart(run) ==
  IF Len(HistoryOf(run.scenario)) < MinBars
  THEN [run EXCEPT !.pc = "done",
                   !.returned = [error |-> "Not enough historical data for backtest"]]
  ELSE [run EXCEPT !.pc = "loop", !.i = WalkStart]

\* the loop test i < historicalData.length - 20
InWalk(run) == run.i < Len(HistoryOf(run.scenario)) - LookForward

\* the iteration after its analysis: a candidate opens a trade at entryPrice
BtDecide(run, analysis, entryPrice) ==
  IF analysis.isBreakoutCandidate
  THEN [run EXCEPT !.decisions = Append(@, [i |-> run.i, analysis |-> analysis]),
                   !.entryPrice = entryPrice,
                   !.stopLoss = Get(analysis, "suggestedStopLoss"),
                   !.takeProfit = Get(analysis, "suggestedTakeProfit"),
                   !.exitPrice = Null, !.exitType = "null", !.barsHeld = 0,
                   !.j = run.i + 1, !.pc = "scan"]
  ELSE [run EXCEPT !.decisions = Append(@, [i |-> run.i, analysis |-> analysis]),
                   !.i = @ + 1]

\* one iteration: analyzeBreakout(historicalData.slice(0, i), options), and the
\* entry at historicalData[i].close
BtAnalyze(run) ==
  BtDecide(run,
           analyzeBreakout(DataSlice(HistoryOf(run.scenario), run.i), run.options),
           HistoryOf(run.scenario)[run.i + 1].close)

\* the forward loop with one more bar: j < Math.min(i + 21, historicalData.length)
InScanOneMore(run) ==
  run.j < Min2(run.i + LookForward + 1, Len(HistoryOf(run.scenario)))

\* the test of the forward loop: j < Math.min(i + 20, historicalData.length)
InScan(run) == run.j < Min2(run.i + LookForward, Len(HistoryOf(run.scenario)))

\* BtScanBar with the take profit checked before the stop loss
BtScanBarTargetFirst(run, currentBar, lastBar) ==
  IF JsGe(N(currentBar.high), run.takeProfit)
  THEN [run EXCEPT !.barsHeld = @ + 1, !.exitPrice = run.takeProfit,
                   !.exitType = "Take Profit", !.pc = "record"]
  ELSE IF JsLe(N(currentBar.low), run.stopLoss)
  THEN [run EXCEPT !.barsHeld = @ + 1, !.exitPrice = run.stopLoss,
                   !.exitType = "Stop Loss", !.pc = "record"]
  ELSE IF run.j = lastBar
  THEN [run EXCEPT !.barsHeld = @ + 1, !.exitPrice = N(currentBar.close),
                   !.exitType = "Time Exit", !.j = @ + 1]
  ELSE [run EXCEPT !.barsHeld = @ + 1, !.j = @ + 1]

\* one iteration of the forward loop over the bar j, the last iteration being
\* the one at j = lastBar
BtScanBar(run, currentBar, lastBar) ==
  IF JsLe(N(currentBar.low), run.stopLoss)
  THEN [run EXCEPT !.barsHeld = @ + 1, !.exitPrice = run.stopLoss,
                   !.exitType = "Stop Loss", !.pc = "record"]
  ELSE IF JsGe(N(currentBar.high), run.takeProfit)
  THEN [run EXCEPT !.barsHeld = @ + 1, !.exitPrice = run.takeProfit,
                   !.exitType = "Take Profit", !.pc = "record"]
  ELSE IF run.j = lastBar
  THEN [run EXCEPT !.barsHeld = @ + 1, !.exitPrice = N(currentBar.close),
                   !.exitType = "Time Exit", !.j = @ + 1]
  ELSE [run EXCEPT !.barsHeld = @ + 1, !.j = @ + 1]

BtScan(run) ==
  BtScanBar(run, HistoryOf(run.scenario)[run.j + 1],
            Min2(run.i + LookForward - 1, Len(HistoryOf(run.scenario)) - 1))

\* (exitPrice - entryPrice) / entryPrice * 100, in hundredths of a percent
\* (a null exitPrice counts as 0; the entry prices of the histories are positive)
Pnl(exitPrice, entryPrice) ==
  N(((ToNum(exitPrice).v - entryPrice) * 100 * Pct) \div entryPrice)

\* BtRecordTrade without the skip i += barsHeld
BtRecordTradeNoSkip(run, pnl, date) ==
  [run EXCEPT !.results.trades =
                 Append(@, [entryBar |-> run.i, entryPrice |-> run.entryPrice,
                            stopLoss |-> run.stopLoss,
                            takeProfit |-> run.takeProfit,
                            exitPrice |-> run.exitPrice,
                            exitType |-> run.exitType,
                            barsHeld |-> run.barsHeld, pnl |-> pnl,
                            date |-> date]),
              !.results.totalTrades = @ + 1,
              !.results.winningTrades = IF JsGt(pnl, N(0)) THEN @ + 1 ELSE @,
              !.results.losingTrades = IF JsGt(pnl, N(0)) THEN @ ELSE @ + 1,
              !.totalProfit = IF JsGt(pnl, N(0)) THEN @ + pnl.v ELSE @,
              !.totalLoss = IF JsGt(pnl, N(0)) THEN @ ELSE @ + Abs(pnl.v),
              !.i = run.i + 1,
              !.pc = "loop"]

\* the trade is recorded and counted, and i skips the bars it was held
BtRecordTrade(run, pnl, date) ==
  [run EXCEPT !.results.trades =
                 Append(@, [entryBar |-> run.i, entryPrice |-> run.entryPrice,
                            stopLoss |-> run.stopLoss,
                            takeProfit |-> run.takeProfit,
                            exitPrice |-> run.exitPrice,
                            exitType |-> run.exitType,
                            barsHeld |-> run.barsHeld, pnl |-> pnl,
                            date |-> date]),
              !.results.totalTrades = @ + 1,
              !.results.winningTrades = IF JsGt(pnl, N(0)) THEN @ + 1 ELSE @,
              !.results.losingTrades = IF JsGt(pnl, N(0)) THEN @ ELSE @ + 1,
              !.totalProfit = IF JsGt(pnl, N(0)) THEN @ + pnl.v ELSE @,
              !.totalLoss = IF JsGt(pnl, N(0)) THEN @ ELSE @ + Abs(pnl.v),
              !.i = run.i + run.barsHeld + 1,
              !.pc = "loop"]

BtRecord(run) ==
  BtRecordTrade(run, Pnl(run.exitPrice, run.entryPrice),
                HistoryOf(run.scenario)[run.i + 1].time)

\* Statistics with the win rate taken from the losing trades
StatisticsOfLosers(results, totalProfit, totalLoss) ==
  IF results.totalTrades > 0
  THEN LET winRate == (results.losingTrades * 100 * Pct) \div results.totalTrades
           averageProfit == IF results.winningTrades > 0
                            THEN totalProfit \div results.winningTrades ELSE 0
           averageLoss == IF results.losingTrades > 0
                          THEN totalLoss \div results.losingTrades ELSE 0
           profitFactor == IF averageLoss > 0
                           THEN (averageProfit * RatioOne) \div averageLoss ELSE 0
           expectancy == (winRate * averageProfit) \div (100 * Pct)
                         - ((100 * Pct - winRate) * averageLoss) \div (100 * Pct)
       IN  [results EXCEPT !.winRate = winRate, !.averageProfit = averageProfit,
                           !.averageLoss = averageLoss,
                           !.profitFactor = profitFactor]
           @@ [expectancy |-> expectancy]
  ELSE results

\* the statistics after the walk
Statistics(results, totalProfit, totalLoss) ==
  IF results.totalTrades > 0
  THEN LET winRate == (results.winningTrades * 100 * Pct) \div results.totalTrades
           averageProfit == IF results.winningTrades > 0
                            THEN totalProfit \div results.winningTrades ELSE 0
           averageLoss == IF results.losingTrades > 0
                          THEN totalLoss \div results.losingTrades ELSE 0
           profitFactor == IF averageLoss > 0
                           THEN (averageProfit * RatioOne) \div averageLoss ELSE 0
           expectancy == (winRate * averageProfit) \div (100 * Pct)
                         - ((100 * Pct - winRate) * averageLoss) \div (100 * Pct)
       IN  [results EXCEPT !.winRate = winRate, !.averageProfit = averageProfit,
                           !.averageLoss = averageLoss,
                           !.profitFactor = profitFactor]
           @@ [expectancy |-> expectancy]
  ELSE results

BtFinish(run) ==
  [run EXCEPT !.pc = "done",
              !.returned = Statistics(run.results, run.totalProfit, run.totalLoss)]

(***************************************************************************)
(* Multi-timeframe analysis (breakoutDetector.multiTimeframeAnalysis)      *)
(***************************************************************************)
\* results.signals.map(signal => `${prefix}${signal}`)
Prefixed(prefix, signals) == [k \in 1..Len(signals) |-> prefix \o signals[k]]

\* a || b on strings
TextOr(a, b) == IF a # "" THEN a ELSE b

\* AlignmentScore with one point for each candidate
AlignmentScoreByCount(hourlyResults, fourHourResults, dailyResults) ==
  Cardinality({k \in 1..3 :
                 <<hourlyResults, fourHourResults, dailyResults>>[k].isBreakoutCandidate})

\* AlignmentScore with the points of the hourly and the daily candidate swapped
AlignmentScoreHourlyFirst(hourlyResults, fourHourResults, dailyResults) ==
  (IF hourlyResults.isBreakoutCandidate THEN 3 ELSE 0)
  + (IF fourHourResults.isBreakoutCandidate THEN 2 ELSE 0)
  + (IF dailyResults.isBreakoutCandidate THEN 1 ELSE 0)

AlignmentScore(hourlyResults, fourHourResults, dailyResults) ==
  (IF hourlyResults.isBreakoutCandidate THEN 1 ELSE 0)
  + (IF fourHourResults.isBreakoutCandidate THEN 2 ELSE 0)
  + (IF dailyResults.isBreakoutCandidate THEN 3 ELSE 0)

\* ten times the weighted score 0.2 * hourly + 0.3 * fourHour + 0.5 * daily
WeightedScore(hourlyResults, fourHourResults, dailyResults) ==
  2 * hourlyResults.breakoutScore + 3 * fourHourResults.breakoutScore
  + 5 * dailyResults.breakoutScore

MtfResults(hourlyResults, fourHourResults, dailyResults) ==
  [mtfScore |->
     (WeightedScore(hourlyResults, fourHourResults, dailyResults) + 5) \div 10,
   alignmentScore |-> AlignmentScore(hourlyResults, fourHourResults, dailyResults),
   hourlyScore |-> hourlyResults.breakoutScore,
   fourHourScore |-> fourHourResults.breakoutScore,
   dailyScore |-> dailyResults.breakoutScore,
   isConfirmedBreakout |->
     /\ AlignmentScore(hourlyResults, fourHourResults, dailyResults) >= 4
     /\ WeightedScore(hourlyResults, fourHourResults, dailyResults) >= 750,
   combinedSignals |-> Prefixed("1H: ", hourlyResults.signals)
                       \o Prefixed("4H: ", fourHourResults.signals)
                       \o Prefixed("1D: ", dailyResults.signals),
   profitPotential |-> TextOr(dailyResults.profitPotential,
                              fourHourResults.profitPotential),
   riskLevel |-> TextOr(dailyResults.riskLevel, fourHourResults.riskLevel),
   suggestedStopLoss |-> JsOr(Get(fourHourResults, "suggestedStopLoss"),
                              Get(hourlyResults, "suggestedStopLoss")),
   suggestedTakeProfit |-> JsOr(Get(fourHourResults, "suggestedTakeProfit"),
                                Get(hourlyResults, "suggestedTakeProfit"))]

multiTimeframeAnalysis(hourlyData, fourHourData, dailyData, options) ==
  MtfResults(analyzeBreakout(hourlyData, options),
             analyzeBreakout(fourHourData, options),
             analyzeBreakout(dailyData, options))

(***************************************************************************)
(* Signal generator (signalGenerator.generateBreakoutSignal).  The outcome *)
(* of a call is the object it returns or the exception it throws; the      *)
(* field mtfAnalysis of an outcome is the analysis the call made: it is    *)
(* not part of what the code returns.  The two timestamps of a signal,     *)
(* generatedAt and expiresAt, are left out.                                *)
(***************************************************************************)
SignalConfig(options) ==
  [consolidationPeriod |-> Opt(options, "consolidationPeriod", 6),
   consolidationThreshold |-> Opt(options, "consolidationThreshold", 1500),
   rsiLowerThreshold |-> Opt(options, "rsiLowerThreshold", 50 * Pct),
   rsiUpperThreshold |-> Opt(options, "rsiUpperThreshold", 75 * Pct),
   volumeIncreaseThreshold |-> Opt(options, "volumeIncreaseThreshold", 1000),
   minBreakoutPercent |-> Opt(options, "minBreakoutPercent", 100),
   maxBreakoutPercent |-> Opt(options, "maxBreakoutPercent", 2000),
   minMTFScore |-> Opt(options, "minMTFScore", 75),
   minAlignmentScore |-> Opt(options, "minAlignmentScore", 4),
   minDailyScore |-> Opt(options, "minDailyScore", 65),
   requireEma200 |-> IF "requireEma200" \in DOMAIN options
                     THEN options.requireEma200 ELSE TRUE,
   maxPrice |-> Opt(options, "maxPrice", PerDollar),
   riskRewardRatio |-> Opt(options, "riskRewardRatio", 3 * RatioOne),
   maxStopLossPercent |-> Opt(options, "maxStopLossPercent", 5 * Pct),
   minProfitPotential |-> IF "minProfitPotential" \in DOMAIN options
                          THEN options.minProfitPotential ELSE "Medium"]

\* the options generateBreakoutSignal hands to multiTimeframeAnalysis
MtfOptions(config) ==
  [consolidationPeriod |-> config.consolidationPeriod,
   consolidationThreshold |-> config.consolidationThreshold,
   rsiLowerThreshold |-> config.rsiLowerThreshold,
   rsiUpperThreshold |-> config.rsiUpperThreshold,
   volumeIncreaseThreshold |-> config.volumeIncreaseThreshold,
   minBreakoutPercent |-> config.minBreakoutPercent,
   maxBreakoutPercent |-> config.maxBreakoutPercent,
   ema200Required |-> config.requireEma200]

\* calculateConfidenceScore without the cap Math.min(10, score)
ConfidenceScoreUncapped(mtfAnalysis) ==
  mtfAnalysis.mtfScore
  + (IF mtfAnalysis.alignmentScore >= 6 THEN 10
     ELSE IF mtfAnalysis.alignmentScore >= 4 THEN 5 ELSE 0)
  + (IF mtfAnalysis.profitPotential = "Very High" THEN 10
     ELSE IF mtfAnalysis.profitPotential = "High" THEN 5 ELSE 0)

\* the score from 1 to 10, in tenths
calculateConfidenceScore(mtfAnalysis) ==
  Min2(10 * 10,
       mtfAnalysis.mtfScore
       + (IF mtfAnalysis.alignmentScore >= 6 THEN 10
          ELSE IF mtfAnalysis.alignmentScore >= 4 THEN 5 ELSE 0)
       + (IF mtfAnalysis.profitPotential = "Very High" THEN 10
          ELSE IF mtfAnalysis.profitPotential = "High" THEN 5 ELSE 0))

\* the probability in percent; the sum before Math.round is in tenths
estimateSuccessProbability(mtfScore, alignmentScore, profitPotential, stopLossPercent) ==
  Min2(95, Max2(60,
    (8 * mtfScore
     + (IF alignmentScore >= 6 THEN 100 ELSE IF alignmentScore >= 4 THEN 50 ELSE 0)
     + (IF profitPotential = "Very High" THEN 50
        ELSE IF profitPotential = "High" THEN 30
        ELSE IF profitPotential = "Medium" THEN 10 ELSE 0)
     - (IF JsLt(stopLossPercent, N(2 * Pct)) THEN 50
        ELSE IF JsGt(stopLossPercent, N(4 * Pct)) THEN 30 ELSE 0)
     + 5) \div 10))

\* ((a - b) / b) * 100 and ((b - a) / b) * 100, b a price and a any value
PercentAbove(a, b) == IF IsNum(a) THEN N(((a.v - b) * 100 * Pct) \div b) ELSE NaN
PercentBelow(a, b) == IF IsNum(a) THEN N(((b - a.v) * 100 * Pct) \div b) ELSE NaN

IsValidSignal(mtfAnalysis, config) ==
  /\ mtfAnalysis.mtfScore >= config.minMTFScore
  /\ mtfAnalysis.alignmentScore >= config.minAlignmentScore
  /\ mtfAnalysis.dailyScore >= config.minDailyScore
  /\ \/ mtfAnalysis.profitPotential = "High"
     \/ mtfAnalysis.profitPotential = "Very High"
     \/ mtfAnalysis.profitPotential = "Medium" /\ mtfAnalysis.mtfScore > 85

\* stopLossPercent > config.maxStopLossPercent, compared without rounding
StopLossTooFar(currentPrice, stopLoss, maxStopLossPercent) ==
  /\ IsNum(ToNum(stopLoss))
  /\ (currentPrice - ToNum(stopLoss).v) * 100 * Pct > maxStopLossPercent * currentPrice

\* coinData.dailyData.slice(-20) and its highest high and lowest low
RecentDailyData(dailyData) ==
  SubSeq(dailyData, Max2(1, Len(dailyData) - 19), Len(dailyData))
TwentyDayHigh(recentDailyData) ==
  MaxRange(Highs(recentDailyData), 1, Len(recentDailyData))
TwentyDayLow(recentDailyData) ==
  MinRange(Lows(recentDailyData), 1, Len(recentDailyData))

SignalData(coinData, currentPrice, mtfAnalysis, stopLossPercent) ==
  [success |-> TRUE,
   symbol |-> coinData.symbol,
   exchange |-> IF "exchange" \in DOMAIN coinData THEN coinData.exchange ELSE "ByDFi",
   signalType |-> "Breakout",
   direction |-> "Long",
   confidence |-> calculateConfidenceScore(mtfAnalysis),
   entryPrice |-> N(currentPrice),
   stopLoss |-> mtfAnalysis.suggestedStopLoss,
   takeProfit |-> mtfAnalysis.suggestedTakeProfit,
   riskRewardRatio |-> JsRatio(JsSub(mtfAnalysis.suggestedTakeProfit, N(currentPrice)),
                               JsSub(N(currentPrice), mtfAnalysis.suggestedStopLoss)),
   potentialProfitPercent |-> PercentAbove(mtfAnalysis.suggestedTakeProfit, currentPrice),
   potentialLossPercent |-> stopLossPercent,
   timeframe |-> "Multi-Timeframe",
   mtfAnalysis |-> [score |-> mtfAnalysis.mtfScore,
                    alignmentScore |-> mtfAnalysis.alignmentScore,
                    hourlyScore |-> mtfAnalysis.hourlyScore,
                    fourHourScore |-> mtfAnalysis.fourHourScore,
                    dailyScore |-> mtfAnalysis.dailyScore],
   signals |-> mtfAnalysis.combinedSignals,
   profitPotential |-> mtfAnalysis.profitPotential,
   riskLevel |-> mtfAnalysis.riskLevel,
   successProbability |->
     estimateSuccessProbability(mtfAnalysis.mtfScore, mtfAnalysis.alignmentScore,
                                mtfAnalysis.profitPotential, stopLossPercent)]

Rejected(message, diagnostics) ==
  [success |-> FALSE, message |-> message] @@ diagnostics

\* the checks against the 20-day high and low, and the signal
RangeGates(coinData, currentPrice, mtfAnalysis, twentyDayHigh, twentyDayLow) ==
  IF (twentyDayHigh - currentPrice) * 100 < 3 * currentPrice
  THEN Rejected("Price too close to 20-day high",
                [percentFromHigh |-> PercentAbove(N(twentyDayHigh), currentPrice)])
  ELSE IF 2 * (twentyDayHigh - twentyDayLow) > twentyDayLow
  THEN Rejected("Coin volatility too high",
                [normalizedVolatility |->
                   Ratio(twentyDayHigh - twentyDayLow, twentyDayLow)])
  ELSE SignalData(coinData, currentPrice, mtfAnalysis,
                  PercentBelow(mtfAnalysis.suggestedStopLoss, currentPrice))

\* the checks that follow the multi-timeframe analysis
SignalGates(coinData, config, currentPrice, mtfAnalysis) ==
  IF ~IsValidSignal(mtfAnalysis, config)
  THEN Rejected("Does not meet signal criteria",
                [mtfScore |-> mtfAnalysis.mtfScore,
                 alignmentScore |-> mtfAnalysis.alignmentScore,
                 dailyScore |-> mtfAnalysis.dailyScore,
                 profitPotential |-> mtfAnalysis.profitPotential])
  ELSE IF StopLossTooFar(currentPrice, mtfAnalysis.suggestedStopLoss,
                         config.maxStopLossPercent)
  THEN Rejected("Stop loss percentage too high",
                [stopLossPercent |->
                   PercentBelow(mtfAnalysis.suggestedStopLoss, currentPrice),
                 maxStopLossPercent |-> config.maxStopLossPercent])
  ELSE RangeGates(coinData, currentPrice, mtfAnalysis,
                  TwentyDayHigh(RecentDailyData(coinData.dailyData)),
                  TwentyDayLow(RecentDailyData(coinData.dailyData)))

Returns(result, mtfAnalysis) ==
  [threw |-> FALSE, result |-> result, mtfAnalysis |-> mtfAnalysis]
\* reading .close of undefined
Throws(error) == [threw |-> TRUE, result |-> [error |-> error], mtfAnalysis |-> Null]

AnalysedSignal(coinData, config, currentPrice, mtfAnalysis) ==
  Returns(SignalGates(coinData, config, currentPrice, mtfAnalysis), mtfAnalysis)

PricedSignal(coinData, config, currentPrice) ==
  IF currentPrice > config.maxPrice
  THEN Returns(Rejected("Price above maximum threshold",
                        [price |-> currentPrice, maxPrice |-> config.maxPrice]),
               Null)
  ELSE AnalysedSignal(coinData, config, currentPrice,
                      multiTimeframeAnalysis(coinData.hourlyData,
                                             coinData.fourHourData,
                                             coinData.dailyData,
                                             MtfOptions(config)))

generateBreakoutSignal(coinData, options) ==
  IF \/ "hourlyData" \notin DOMAIN coinData
     \/ "fourHourData" \notin DOMAIN coinData
     \/ "dailyData" \notin DOMAIN coinData
  THEN Returns(Rejected("Missing required timeframe data", << >>), Null)
  ELSE IF Len(coinData.hourlyData) = 0
  THEN Throws("TypeError")
  ELSE PricedSignal(coinData, SignalConfig(options), Last(coinData.hourlyData).close)


(***************************************************************************)
(* Signal filter (signalGenerator.filterSignalsForHighAccuracy)            *)
(***************************************************************************)
FilterConfig(options) ==
  [minConfidence |-> Opt(options, "minConfidence", 75),
   minSuccessProbability |-> Opt(options, "minSuccessProbability", 80),
   minRiskRewardRatio |-> Opt(options, "minRiskRewardRatio", (5 * RatioOne) \div 2),
   maxRiskLevel |-> IF "maxRiskLevel" \in DOMAIN options
                    THEN options.maxRiskLevel ELSE "Medium",
   minMTFScore |-> Opt(options, "minMTFScore", 75),
   minAlignmentScore |-> Opt(options, "minAlignmentScore", 4)]

\* the callback of signals.filter; a field that an object lacks is undefined,
\* the comparison with it false, and the conjuncts after it are not evaluated
PassesFilters(signal, filters) ==
  /\ "confidence" \in DOMAIN signal
  /\ signal.confidence >= filters.minConfidence
  /\ signal.successProbability >= filters.minSuccessProbability
  /\ JsGe(signal.riskRewardRatio, N(filters.minRiskRewardRatio))
  /\ \/ signal.riskLevel = "Low"
     \/ signal.riskLevel = "Medium"
     \/ signal.riskLevel = "High" /\ signal.confidence > 85
  /\ signal.mtfAnalysis.score >= filters.minMTFScore
  /\ signal.mtfAnalysis.alignmentScore >= filters.minAlignmentScore

\* a filter that also drops the first signal it is given
FilterSignalsAfterFirst(signals, options) ==
  SelectSeq(SubSeq(signals, 2, Len(signals)),
            LAMBDA signal : PassesFilters(signal, FilterConfig(options)))

filterSignalsForHighAccuracy(signals, options) ==
  SelectSeq(signals, LAMBDA signal : PassesFilters(signal, FilterConfig(options)))

(***************************************************************************)
(* The timeframe datasets of a coin: none, no candle, and WalkStart        *)
(* candles that are quiet, that end in a breakout, that end in a breakout  *)
(* a tenth lower, that end in a breakout after one deep low, and that end  *)
(* in two steady rises.                                                    *)
(***************************************************************************)
Lower(data) ==
  [k \in 1..Len(data) |->
     [data[k] EXCEPT !.open = (@ * 9) \div 10, !.high = (@ * 9) \div 10,
                     !.low = (@ * 9) \div 10, !.close = (@ * 9) \div 10]]
Wild(data) == [data EXCEPT ![Len(data) - 10].low = @ \div 2]
\* the last two candles rise by 2% each on the usual volume
Steady(data) ==
  [data EXCEPT ![Len(data) - 1] =
                 [time |-> @.time] @@ Bar(Base + Quiet, Quiet, 3 * Quiet, Volume),
               ![Len(data)] =
                 [time |-> @.time] @@ Bar(Base + 2 * Quiet, Quiet, 3 * Quiet, Volume)]

\* every price of every candle the same, on no volume
Flat(price, length) ==
  [k \in 1..length |->
     [time |-> k - 1, open |-> price, high |-> price, low |-> price,
      close |-> price, volume |-> 0]]
\* closes that alternate between two prices, ending in a breakout candle
Zigzag(length) ==
  [k \in 1..length |->
     [time |-> k - 1] @@
     (IF k = length THEN SpikeBar(Base)
      ELSE IF (length - k) % 2 = 1 THEN QuietBar(Base) ELSE QuietBar(Base + Quiet))]
\* quiet candles ending in a breakout candle
EndingInSpike(length) ==
  [k \in 1..length |->
     [time |-> k - 1] @@ (IF k = length THEN SpikeBar(Base) ELSE QuietBar(Base))]

\* the candles of a series [shape, length, price]
Series(series) ==
  CASE series.shape = "quiet" -> HistoryOf([events |-> << >>, length |-> series.length])
    [] series.shape = "spike" -> EndingInSpike(series.length)
    [] series.shape = "zigzag" -> Zigzag(series.length)
    [] series.shape = "steady" ->
         Steady(HistoryOf([events |-> << >>, length |-> series.length]))
    [] series.shape = "flat" -> Flat(series.price, series.length)

Dataset(name) ==
  CASE name = "empty" -> << >>
    [] name = "quiet" -> HistoryOf([events |-> << >>, length |-> WalkStart])
    [] name = "breakout" -> HistoryOf([events |-> <<"spike">>, length |-> WalkStart])
    [] name = "lower" -> Lower(HistoryOf([events |-> <<"spike">>, length |-> WalkStart]))
    [] name = "wild" -> Wild(HistoryOf([events |-> <<"spike">>, length |-> WalkStart]))
    [] name = "steady" -> Steady(HistoryOf([events |-> << >>, length |-> WalkStart]))

Timeframe(field, name) ==
  IF name = "absent" THEN << >> ELSE (field :> Dataset(name))

\* the coinData object of a call, from the names of its three datasets
CoinData(names) ==
  [symbol |-> "COIN"] @@ Timeframe("hourlyData", names.hourlyData)
  @@ Timeframe("fourHourData", names.fourHourData)
  @@ Timeframe("dailyData", names.dailyData)

\* a call of generateBreakoutSignal before its first statement runs, and after
SgCall(names, options) ==
  [pc |-> "call", coinData |-> names, options |-> options, result |-> << >>,
   mtfAnalysis |-> Null]
SgReturn(call, outcome) ==
  [call EXCEPT !.pc = IF outcome.threw THEN "threw" ELSE "returned",
               !.result = outcome.result,
               !.mtfAnalysis = outcome.mtfAnalysis]

\* a direct call of the function fn before its first statement runs; the
\* field analyses is the analyses the call made, not part of what it returns
LibCall(fn, data, options) ==
  [pc |-> "call", fn |-> fn, data |-> data, options |-> options,
   analyses |-> << >>, result |-> << >>]

\* multiTimeframeAnalysis after its three calls of analyzeBreakout
MtfReturn(call, hourlyResults, fourHourResults, dailyResults) ==
  [call EXCEPT !.pc = "returned",
               !.analyses = [hourly |-> hourlyResults, fourHour |-> fourHourResults,
                             daily |-> dailyResults],
               !.result = MtfResults(hourlyResults, fourHourResults, dailyResults)]

(***************************************************************************)
(* Parameter optimizer (signalGenerator.optimizeParameters).  A parameter  *)
(* set holds consolidationPeriod in hundredths of a candle, its other      *)
(* fields in the units of the analyzer's configuration.  Math.random() is  *)
(* a multiple of 1 / RandomSteps below 1.  The fields stream, baseParams   *)
(* and evaluated of a call are the random numbers and the base of the      *)
(* generation and the log of the evaluations, each with the backtest it   *)
(* made: they are not variables of the code.                               *)
(***************************************************************************)
RandomSteps == 4

\* backtestBreakoutStrategy as one call: its steps up to the return
BtStep(run) ==
  CASE run.pc = "start" -> BtStart(run)
    [] run.pc = "loop" -> IF InWalk(run) THEN BtAnalyze(run) ELSE BtFinish(run)
    [] run.pc = "scan" -> IF InScan(run) THEN BtScan(run)
                          ELSE [run EXCEPT !.pc = "record"]
    [] run.pc = "record" -> BtRecord(run)
    [] OTHER -> run
RECURSIVE BtRunFor(_, _)
BtRunFor(run, steps) ==
  IF run.pc = "done" \/ steps = 0 THEN run
  ELSE IF steps = 1 THEN BtStep(run)
  ELSE BtRunFor(BtRunFor(run, steps \div 2), steps - steps \div 2)
\* no call takes more than four steps for each candle
backtestBreakoutStrategy(historicalData, options) ==
  BtRunFor(BtCall(historicalData, options), 4 * (historicalData.length + 1)).returned

\* the options the analyzer sees: data.slice(-period) drops the fraction of
\* the period, and data.length < period is false of the backtester's slices
BacktestParams(params) == [params EXCEPT !.consolidationPeriod = @ \div Pct]

\* the score of a backtest, in units of 1 / RatioOne
ScoreOfAnyTrades(backtest) ==
  IF "error" \in DOMAIN backtest THEN 0
  ELSE 60 * backtest.winRate + Min2(10 * backtest.profitFactor, 30 * RatioOne)
       + (Min2(backtest.totalTrades, 100) * RatioOne) \div 10

ScoreOf(backtest) ==
  IF "error" \in DOMAIN backtest \/ backtest.totalTrades < 10 THEN 0
  ELSE 60 * backtest.winRate + Min2(10 * backtest.profitFactor, 30 * RatioOne)
       + (Min2(backtest.totalTrades, 100) * RatioOne) \div 10

\* an evaluation: the parameters, the backtest it makes and its score
Evaluation(params, backtest) ==
  [params |-> params, backtest |-> backtest, score |-> ScoreOf(backtest)]
Evaluate(historicalData, params) ==
  Evaluation(params, backtestBreakoutStrategy(historicalData, BacktestParams(params)))
evaluateParameters(historicalData, params) == Evaluate(historicalData, params).score

WinRateOf(backtest) ==
  IF "error" \in DOMAIN backtest \/ backtest.totalTrades = 0 THEN 0
  ELSE backtest.winRate
calculateWinRate(historicalData, params) ==
  WinRateOf(backtestBreakoutStrategy(historicalData, BacktestParams(params)))

\* value + (Math.random() * 2 - 1) * amount without the clamp
RandomAdjustUnclamped(value, amount, min, max, random) ==
  value + ((2 * random - RandomSteps) * amount) \div RandomSteps

\* random is Math.random() * RandomSteps
randomAdjust(value, amount, min, max, random) ==
  Max2(min, Min2(max, value + ((2 * random - RandomSteps) * amount) \div RandomSteps))

\* the amounts and the ranges of generateParameterVariations, in the order
\* the code draws the random numbers
Adjustments ==
  << [field |-> "consolidationPeriod", amount |-> 1 * Pct, min |-> 4 * Pct,
      max |-> 10 * Pct],
     [field |-> "consolidationThreshold", amount |-> 500, min |-> 500, max |-> 3000],
     [field |-> "rsiLowerThreshold", amount |-> 5 * Pct, min |-> 40 * Pct,
      max |-> 60 * Pct],
     [field |-> "rsiUpperThreshold", amount |-> 5 * Pct, min |-> 70 * Pct,
      max |-> 85 * Pct],
     [field |-> "volumeIncreaseThreshold", amount |-> 500, min |-> 500, max |-> 3000],
     [field |-> "minBreakoutPercent", amount |-> 50, min |-> 50, max |-> 500],
     [field |-> "maxBreakoutPercent", amount |-> 500, min |-> 1000, max |-> 4000],
     [field |-> "riskRewardRatio", amount |-> RatioOne \div 2, min |-> 2 * RatioOne,
      max |-> 5 * RatioOne],
     [field |-> "maxStopLossPercent", amount |-> 1 * Pct, min |-> 3 * Pct,
      max |-> 8 * Pct] >>

\* the random number drawn for the field j of the variation i
RandomOf(stream, i, j) ==
  (stream.start + stream.step * ((i - 1) * Len(Adjustments) + (j - 1))) % RandomSteps

Variation(baseParams, stream, i) ==
  [field \in DOMAIN baseParams |->
     LET j == CHOOSE x \in 1..Len(Adjustments) : Adjustments[x].field = field
     IN  randomAdjust(baseParams[field], Adjustments[j].amount, Adjustments[j].min,
                      Adjustments[j].max, RandomOf(stream, i, j))]

VariationCount == 10
generateParameterVariations(baseParams, stream) ==
  [i \in 1..VariationCount |-> Variation(baseParams, stream, i)]

\* bestParams before the first evaluation
OptimizerParams(initialParams) ==
  [consolidationPeriod |-> Opt(initialParams, "consolidationPeriod", 6 * Pct),
   consolidationThreshold |-> Opt(initialParams, "consolidationThreshold", 1500),
   rsiLowerThreshold |-> Opt(initialParams, "rsiLowerThreshold", 50 * Pct),
   rsiUpperThreshold |-> Opt(initialParams, "rsiUpperThreshold", 75 * Pct),
   volumeIncreaseThreshold |-> Opt(initialParams, "volumeIncreaseThreshold", 1000),
   minBreakoutPercent |-> Opt(initialParams, "minBreakoutPercent", 100),
   maxBreakoutPercent |-> Opt(initialParams, "maxBreakoutPercent", 2000),
   riskRewardRatio |-> Opt(initialParams, "riskRewardRatio", 3 * RatioOne),
   maxStopLossPercent |-> Opt(initialParams, "maxStopLossPercent", 5 * Pct)]

\* a call of optimizeParameters before its first statement runs
OptCall(historicalData, initialParams, generations) ==
  [pc |-> "start", historicalData |-> historicalData,
   initialParams |-> initialParams, generations |-> generations,
   bestParams |-> << >>, bestScore |-> 0, generation |-> 0,
   paramVariations |-> << >>, k |-> 0,
   stream |-> << >>, baseParams |-> << >>, evaluated |-> << >>,
   returned |-> << >>]

\* bestParams and the score of its evaluation
OptStart(call, evaluation) ==
  [call EXCEPT !.pc = "generation", !.bestParams = evaluation.params,
               !.bestScore = evaluation.score,
               !.evaluated = <<evaluation>>]

\* the variations of a generation
OptGenerate(call, stream) ==
  [call EXCEPT !.pc = "evaluate", !.k = 0, !.stream = stream,
               !.baseParams = call.bestParams,
               !.paramVariations = generateParameterVariations(call.bestParams, stream)]

\* OptConsider with the test score >= bestScore
OptConsiderTies(call, evaluation) ==
  [call EXCEPT !.evaluated = Append(@, evaluation),
               !.bestScore = IF evaluation.score >= call.bestScore
                             THEN evaluation.score ELSE @,
               !.bestParams = IF evaluation.score >= call.bestScore
                              THEN evaluation.params ELSE @,
               !.k = @ + 1,
               !.generation = IF call.k + 1 = Len(call.paramVariations)
                              THEN @ + 1 ELSE @,
               !.pc = IF call.k + 1 = Len(call.paramVariations)
                      THEN "generation" ELSE "evaluate"]

\* one iteration of the loop over the variations: if (score > bestScore) ...
OptConsider(call, evaluation) ==
  [call EXCEPT !.evaluated = Append(@, evaluation),
               !.bestScore = IF evaluation.score > call.bestScore
                             THEN evaluation.score ELSE @,
               !.bestParams = IF evaluation.score > call.bestScore
                              THEN evaluation.params ELSE @,
               !.k = @ + 1,
               !.generation = IF call.k + 1 = Len(call.paramVariations)
                              THEN @ + 1 ELSE @,
               !.pc = IF call.k + 1 = Len(call.paramVariations)
                      THEN "generation" ELSE "evaluate"]

OptReturn(call) ==
  [call EXCEPT !.pc = "done",
               !.returned = [parameters |-> call.bestParams, score |-> call.bestScore,
                             winRate |-> calculateWinRate(call.historicalData,
                                                          call.bestParams)]]

(***************************************************************************)
(* The state machine.  runs[1] and runs[2] are two calls of the            *)
(* backtester, sg is a call of the signal generator, lib is a call of one  *)
(* of the other exported functions and opt is a call of the optimizer; a   *)
(* call that is not made stays idle.  The calls are synchronous, so the    *)
(* second backtest runs when the first has returned.                       *)
(***************************************************************************)
VARIABLES runs, sg, lib, opt
vars == <<runs, sg, lib, opt>>

\* a history holds at most MaxEvents events and MinBars + MaxExtraBars candles
MaxEvents == 2
MaxExtraBars == 1

FirstKinds == {"target", "stop", "both", "late", "gapup", "gapdown", "spike", "last"}
NextKinds == {"target", "stop"}

\* the event lists: one event of any kind, and up to MaxEvents events that
\* end with a target or a stop after a target, a stop, a late target or a spike
RECURSIVE EventLists(_)
EventLists(n) ==
  IF n = 0 THEN {<< >>}
  ELSE IF n = 1 THEN {<< >>} \cup {<<k>> : k \in FirstKinds}
  ELSE EventLists(n - 1)
       \cup {Append(e, k) :
               e \in {x \in EventLists(n - 1) :
                        Len(x) = n - 1 /\ x[1] \in NextKinds \cup {"late", "spike"}},
               k \in NextKinds}

\* too short a history, the histories of every event list at the shortest
\* length, and the longest lists at the longer lengths
Scenarios ==
  {[events |-> << >>, length |-> MinBars - 1]}
  \cup {[events |-> e, length |-> MinBars] : e \in EventLists(MaxEvents)}
  \cup {[events |-> e, length |-> MinBars + x] :
          e \in {y \in EventLists(MaxEvents) : Len(y) = MaxEvents},
          x \in 1..MaxExtraBars}

\* the options of a backtest: the defaults, and a risk-reward ratio of 5
BacktestOptions == {<< >>, [riskRewardRatio |-> 5 * RatioOne]}

\* the datasets of a coin's three timeframes, and the options of a signal:
\* the defaults, a maximum price of a cent, a stop within 3%, an alignment of
\* 3 and a score of 60, and a risk-reward ratio of 5
HourlyNames == {"absent", "empty", "quiet", "breakout", "lower"}
FourHourNames == {"absent", "empty", "quiet", "lower"}
DailyNames == {"absent", "empty", "quiet", "breakout", "wild"}
Coins ==
  [hourlyData : HourlyNames, fourHourData : FourHourNames, dailyData : DailyNames]
SignalOptions ==
  {<< >>, [maxPrice |-> PerDollar \div 100], [maxStopLossPercent |-> 3 * Pct],
   [minAlignmentScore |-> 3, minMTFScore |-> 60],
   [riskRewardRatio |-> 5 * RatioOne]}

\* the calls that are not made
NoRun == [BtCall([events |-> << >>, length |-> 0], << >>) EXCEPT !.pc = "idle"]
NoSignal == [SgCall([hourlyData |-> "absent", fourHourData |-> "absent",
                     dailyData |-> "absent"], << >>) EXCEPT !.pc = "idle"]

NoLib == [LibCall("none", "empty", << >>) EXCEPT !.pc = "idle"]
NoOpt == [OptCall([events |-> << >>, length |-> 0], << >>, 0) EXCEPT !.pc = "idle"]

\* one call is made: a backtest or a signal
Init ==
  /\ \/ /\ runs \in {<<BtCall(sc, o), NoRun>> : sc \in Scenarios, o \in BacktestOptions}
        /\ sg = NoSignal
     \/ /\ runs = <<NoRun, NoRun>>
        /\ sg \in {SgCall(c, o) : c \in Coins, o \in SignalOptions}
  /\ lib = NoLib
  /\ opt = NoOpt

\* the direct calls of multiTimeframeAnalysis: the datasets of the three
\* timeframes, under the defaults and without the EMA200 requirement
MtfCalls ==
  {LibCall("multiTimeframeAnalysis",
           [hourlyData |-> h, fourHourData |-> f, dailyData |-> d], o) :
     h \in {"empty", "quiet", "breakout", "steady"},
     f \in {"empty", "quiet", "lower"},
     d \in {"empty", "quiet", "breakout", "wild"},
     o \in {<< >>, [ema200Required |-> FALSE]}}

InitMtf ==
  /\ runs = <<NoRun, NoRun>>
  /\ sg = NoSignal
  /\ lib \in MtfCalls
  /\ opt = NoOpt

\* the direct calls of analyzeBreakout: series shorter than the 20 candles of
\* the Bollinger period, series of WalkStart candles, and flat series longer
\* than the 200 candles of the EMA; under the defaults, without the EMA200
\* requirement, and with a threshold of 0
ShortLengths == {0, 1, 2, 6, 15, 19}
FlatLengths == {220, 221}
AnalyzerSeries ==
  {[shape |-> s, length |-> n, price |-> Base] :
     s \in {"quiet", "spike", "zigzag"}, n \in ShortLengths}
  \cup {[shape |-> s, length |-> WalkStart, price |-> Base] : s \in {"spike", "steady"}}
  \cup {[shape |-> "flat", length |-> n, price |-> p] :
          n \in FlatLengths, p \in {Base, PerDollar}}
AnalyzerOptions ==
  {<< >>, [ema200Required |-> FALSE], [consolidationThreshold |-> 0],
   [minBreakoutPercent |-> 0]}

InitAnalyzer ==
  /\ runs = <<NoRun, NoRun>>
  /\ sg = NoSignal
  /\ lib \in {LibCall("analyzeBreakout", d, o) : d \in AnalyzerSeries, o \in AnalyzerOptions}
  /\ opt = NoOpt

\* the calls of optimizeParameters: histories of MinBars candles with nine
\* trades or ten, and one too short; the default parameters and others
\* at the ends of their ranges; up to MaxGenerations generations
MaxGenerations == 1
Repeated(events, n) == [k \in 1..(n * Len(events)) |-> events[((k - 1) % Len(events)) + 1]]
OptimizerHistories ==
  {[events |-> << >>, length |-> MinBars - 1],
   [events |-> Repeated(<<"target">>, 10), length |-> MinBars],
   [events |-> Repeated(<<"target", "target", "stop">>, 3) \o <<"target">>,
    length |-> MinBars]}
InitialParams ==
  {<< >>, [consolidationPeriod |-> 4 * Pct],
   [consolidationPeriod |-> 10 * Pct, consolidationThreshold |-> 1000]}
RandomStreams ==
  {[start |-> 0, step |-> 0], [start |-> RandomSteps - 1, step |-> 0],
   [start |-> 0, step |-> 1]}

InitOptimizer ==
  /\ runs = <<NoRun, NoRun>>
  /\ sg = NoSignal
  /\ lib = NoLib
  /\ opt \in {OptCall(h, p, g) : h \in OptimizerHistories, p \in InitialParams,
                                g \in 1..MaxGenerations}


\* The direct calls of the indicator functions.  A price series has a shape
\* and a length and is a multiple of a series in ticks; a tick is 2^6 * 3^5
\* units, so that the averages calculateRSI takes over 2 and over 3 prices
\* are whole numbers of units on every series here.
Tick == 64 * 243
MaxScale == 2
IndicatorShapes == {"rising", "falling", "flat", "zigzag", "dip"}
IndicatorLengths == {0, 1, 2, 3, 4, 7, 8}
Periods == {2, 3}
TicksAt(shape, i) ==
  CASE shape = "rising" -> 100 + i
    [] shape = "falling" -> 120 - i
    [] shape = "flat" -> 110
    [] shape = "zigzag" -> 110 + 2 * (i % 2)
    [] shape = "dip" -> IF i < 5 THEN 100 + i ELSE 98 + i
Prices(series) ==
  [i \in 1..series.length |-> series.scale * Tick * TicksAt(series.shape, i)]
PriceSeries ==
  {[shape |-> s, length |-> n, scale |-> k, mismatch |-> "none"] :
     s \in IndicatorShapes, n \in IndicatorLengths, k \in 1..MaxScale}
\* series of which the named array is one element shorter than the others
Mismatched(names) ==
  {[series EXCEPT !.mismatch = m] :
     series \in {s \in PriceSeries : s.length >= 1}, m \in names}
\* the arrays of a call: highs a tick above the prices, lows a tick below,
\* the same volume at every index
ArrayOf(series, name) ==
  LET length == IF series.mismatch = name THEN series.length - 1 ELSE series.length
  IN  [i \in 1..length |->
         CASE name = "high" -> Prices(series)[i] + Tick
           [] name = "low" -> Prices(series)[i] - Tick
           [] name = "close" -> Prices(series)[i]
           [] name = "volume" -> Volume]
IndicatorNames ==
  {"calculateSMA", "calculateEMA", "calculateRSI", "calculateBollingerBands",
   "calculateATR", "calculateOBV", "calculateMACD"}
IndicatorCalls ==
  {LibCall(fn, series, [period |-> p]) :
     fn \in {"calculateSMA", "calculateEMA", "calculateRSI"},
     series \in PriceSeries, p \in Periods}
  \cup {LibCall("calculateBollingerBands", series,
                [period |-> p, standardDeviations |-> 2]) :
          series \in PriceSeries, p \in Periods}
  \cup {LibCall("calculateATR", series, [period |-> p]) :
          series \in PriceSeries \cup Mismatched({"low", "close"}), p \in Periods}
  \cup {LibCall("calculateOBV", series, << >>) :
          series \in PriceSeries \cup Mismatched({"volume"})}
  \cup {LibCall("calculateMACD", series,
                [fastPeriod |-> 2, slowPeriod |-> p, signalPeriod |-> 2]) :
          series \in PriceSeries, p \in Periods}

\* The direct calls of detectPositiveRSIDivergence.  The prices of the last
\* LookbackPeriod candles fall to a first low and to a second one and rise
\* from them by 3 ticks a candle; a low is one candle, or two candles at one
\* price when it is flat.  The RSI is 35 but at the two lows.
LookbackPeriod == 20
DistanceTo(low, w) ==
  IF low.flat /\ w < low.at THEN low.at - 1 - w ELSE Abs(w - low.at)
WindowTicks(window, w) ==
  IF w < 0 THEN 130
  ELSE Min2(window.first.depth + 3 * DistanceTo(window.first, w),
            window.second.depth + 3 * DistanceTo(window.second, w))
WindowPrices(window) ==
  [i \in 1..window.length |->
     Tick * WindowTicks(window, (i - 1) - (window.length - LookbackPeriod))]
WindowRSI(window) ==
  [i \in 1..window.length |->
     LET w == (i - 1) - (window.length - LookbackPeriod)
     IN  IF w = window.first.at THEN window.rsi[1]
         ELSE IF w = window.second.at THEN window.rsi[2]
         ELSE N(35 * Pct)]
Windows ==
  {[length |-> n,
    first |-> [at |-> a, depth |-> 100, flat |-> f],
    second |-> [at |-> b, depth |-> d, flat |-> FALSE],
    rsi |-> r] :
     n \in {LookbackPeriod - 1, LookbackPeriod, LookbackPeriod + 3},
     a \in {4, 5, 6}, f \in BOOLEAN, b \in {12, 13}, d \in {98, 100, 102},
     r \in {<<N(30 * Pct), N(40 * Pct)>>, <<N(40 * Pct), N(30 * Pct)>>,
            <<Null, N(40 * Pct)>>}}

\* The direct calls of filterSignalsForHighAccuracy: up to MaxSignals of the
\* results of generateBreakoutSignal below, under the defaults, under a
\* higher minimum of the confidence, and under a minimum of 0
MaxSignals == 3
SignalOf(symbol, confidence, riskLevel) ==
  [success |-> TRUE, symbol |-> symbol, confidence |-> confidence,
   successProbability |-> 85, riskRewardRatio |-> N(3 * RatioOne),
   riskLevel |-> riskLevel,
   mtfAnalysis |-> [score |-> 80, alignmentScore |-> 4]]
SignalPool ==
  {SignalOf("A", 90, "Medium"), SignalOf("B", 86, "High"), SignalOf("C", 80, "High"),
   Rejected("Does not meet signal criteria", << >>)}
RECURSIVE SignalLists(_)
SignalLists(n) ==
  IF n = 0 THEN {<< >>}
  ELSE SignalLists(n - 1)
       \cup {Append(signals, s) :
               signals \in {l \in SignalLists(n - 1) : Len(l) = n - 1},
               s \in SignalPool}
FilterOptions == {<< >>, [minConfidence |-> 88], [minConfidence |-> 0]}

InitIndicators ==
  /\ runs = <<NoRun, NoRun>>
  /\ sg = NoSignal
  /\ \/ lib \in IndicatorCalls
     \/ lib \in {LibCall("detectPositiveRSIDivergence", window, << >>) :
                   window \in Windows}
     \/ lib \in {LibCall("filterSignalsForHighAccuracy", signals, o) :
                   signals \in SignalLists(MaxSignals), o \in FilterOptions}
  /\ opt = NoOpt
\* Two calls on histories of one length that differ in their last event only
PairKinds == <<"quiet", "gapup", "spike">>
RECURSIVE PairPrefixes(_)
PairPrefixes(n) ==
  IF n = 0 THEN {<< >>}
  ELSE {Append(e, k) : e \in PairPrefixes(n - 1), k \in {"quiet"} \cup NextKinds}

PairScenario(prefix, kind) ==
  [events |-> Append(prefix, kind), length |-> MinBars + MaxExtraBars]

InitPair ==
  /\ runs \in {<<BtCall(PairScenario(e, PairKinds[a]), << >>),
                 BtCall(PairScenario(e, PairKinds[b]), << >>)>> :
                 e \in PairPrefixes(MaxEvents - 1),
                 a \in 1..Len(PairKinds), b \in 2..Len(PairKinds)}
  /\ runs[1].scenario # runs[2].scenario
  /\ sg = NoSignal
  /\ lib = NoLib
  /\ opt = NoOpt

\* the call r is the one that runs
Turn(r) == \A q \in 1..(r - 1) : runs[q].pc \in {"done", "idle"}

Start(r) ==
  /\ Turn(r)
  /\ runs[r].pc = "start"
  /\ runs' = [runs EXCEPT ![r] = BtStart(@)]
  /\ UNCHANGED <<sg, lib, opt>>

Analyze(r) ==
  /\ Turn(r)
  /\ runs[r].pc = "loop"
  /\ InWalk(runs[r])
  /\ runs' = [runs EXCEPT ![r] = BtAnalyze(@)]
  /\ UNCHANGED <<sg, lib, opt>>

Finish(r) ==
  /\ Turn(r)
  /\ runs[r].pc = "loop"
  /\ ~InWalk(runs[r])
  /\ runs' = [runs EXCEPT ![r] = BtFinish(@)]
  /\ UNCHANGED <<sg, lib, opt>>

Scan(r) ==
  /\ Turn(r)
  /\ runs[r].pc = "scan"
  /\ InScan(runs[r])
  /\ runs' = [runs EXCEPT ![r] = BtScan(@)]
  /\ UNCHANGED <<sg, lib, opt>>

ScanEnd(r) ==
  /\ Turn(r)
  /\ runs[r].pc = "scan"
  /\ ~InScan(runs[r])
  /\ runs' = [runs EXCEPT ![r] = [@ EXCEPT !.pc = "record"]]
  /\ UNCHANGED <<sg, lib, opt>>

Record(r) ==
  /\ Turn(r)
  /\ runs[r].pc = "record"
  /\ runs' = [runs EXCEPT ![r] = BtRecord(@)]
  /\ UNCHANGED <<sg, lib, opt>>

Generate ==
  /\ sg.pc = "call"
  /\ sg' = SgReturn(sg, generateBreakoutSignal(CoinData(sg.coinData), sg.options))
  /\ UNCHANGED <<runs, lib, opt>>

Analyse ==
  /\ lib.pc = "call"
  /\ lib.fn = "analyzeBreakout"
  /\ lib' = [lib EXCEPT !.pc = "returned",
                        !.result = analyzeBreakout(Series(lib.data), lib.options)]
  /\ UNCHANGED <<runs, sg, opt>>

Aggregate ==
  /\ lib.pc = "call"
  /\ lib.fn = "multiTimeframeAnalysis"
  /\ lib' = MtfReturn(lib, analyzeBreakout(Dataset(lib.data.hourlyData), lib.options),
                      analyzeBreakout(Dataset(lib.data.fourHourData), lib.options),
                      analyzeBreakout(Dataset(lib.data.dailyData), lib.options))
  /\ UNCHANGED <<runs, sg, opt>>

OptimizeStart ==
  /\ opt.pc = "start"
  /\ opt' = OptStart(opt, Evaluate(opt.historicalData,
                                   OptimizerParams(opt.initialParams)))
  /\ UNCHANGED <<runs, sg, lib>>

OptimizeGenerate ==
  /\ opt.pc = "generation"
  /\ opt.generation < opt.generations
  /\ \E stream \in RandomStreams : opt' = OptGenerate(opt, stream)
  /\ UNCHANGED <<runs, sg, lib>>

OptimizeEvaluate ==
  /\ opt.pc = "evaluate"
  /\ opt' = OptConsider(opt, Evaluate(opt.historicalData,
                                      opt.paramVariations[opt.k + 1]))
  /\ UNCHANGED <<runs, sg, lib>>

OptimizeReturn ==
  /\ opt.pc = "generation"
  /\ opt.generation >= opt.generations
  /\ opt' = OptReturn(opt)
  /\ UNCHANGED <<runs, sg, lib>>

Optimize == OptimizeStart \/ OptimizeGenerate \/ OptimizeEvaluate \/ OptimizeReturn

\* a direct call of a function that returns result
LibReturn(call, result) == [call EXCEPT !.pc = "returned", !.result = result]

CallSMA ==
  /\ lib.pc = "call"
  /\ lib.fn = "calculateSMA"
  /\ lib' = LibReturn(lib, calculateSMA(Prices(lib.data), lib.options.period))
  /\ UNCHANGED <<runs, sg, opt>>

CallEMA ==
  /\ lib.pc = "call"
  /\ lib.fn = "calculateEMA"
  /\ lib' = LibReturn(lib, calculateEMA(Prices(lib.data), lib.options.period))
  /\ UNCHANGED <<runs, sg, opt>>

CallRSI ==
  /\ lib.pc = "call"
  /\ lib.fn = "calculateRSI"
  /\ lib' = LibReturn(lib, calculateRSI(Prices(lib.data), lib.options.period))
  /\ UNCHANGED <<runs, sg, opt>>

CallBollingerBands ==
  /\ lib.pc = "call"
  /\ lib.fn = "calculateBollingerBands"
  /\ lib' = LibReturn(lib, calculateBollingerBands(Prices(lib.data), lib.options.period,
                                                   lib.options.standardDeviations))
  /\ UNCHANGED <<runs, sg, opt>>

CallATR ==
  /\ lib.pc = "call"
  /\ lib.fn = "calculateATR"
  /\ lib' = LibReturn(lib, calculateATR(ArrayOf(lib.data, "high"),
                                        ArrayOf(lib.data, "low"),
                                        ArrayOf(lib.data, "close"),
                                        lib.options.period))
  /\ UNCHANGED <<runs, sg, opt>>

CallOBV ==
  /\ lib.pc = "call"
  /\ lib.fn = "calculateOBV"
  /\ lib' = LibReturn(lib, calculateOBV(ArrayOf(lib.data, "close"),
                                        ArrayOf(lib.data, "volume")))
  /\ UNCHANGED <<runs, sg, opt>>

CallMACD ==
  /\ lib.pc = "call"
  /\ lib.fn = "calculateMACD"
  /\ lib' = LibReturn(lib, calculateMACD(Prices(lib.data), lib.options.fastPeriod,
                                         lib.options.slowPeriod,
                                         lib.options.signalPeriod))
  /\ UNCHANGED <<runs, sg, opt>>

CallDivergence ==
  /\ lib.pc = "call"
  /\ lib.fn = "detectPositiveRSIDivergence"
  /\ lib' = LibReturn(lib, detectPositiveRSIDivergence(WindowPrices(lib.data),
                                                       WindowRSI(lib.data),
                                                       LookbackPeriod))
  /\ UNCHANGED <<runs, sg, opt>>

CallFilter ==
  /\ lib.pc = "call"
  /\ lib.fn = "filterSignalsForHighAccuracy"
  /\ lib' = LibReturn(lib, filterSignalsForHighAccuracy(lib.data, lib.options))
  /\ UNCHANGED <<runs, sg, opt>>

Indicators ==
  \/ CallSMA \/ CallEMA \/ CallRSI \/ CallBollingerBands \/ CallATR \/ CallOBV
  \/ CallMACD \/ CallDivergence \/ CallFilter

Backtest ==
  \E r \in 1..2 : Start(r) \/ Analyze(r) \/ Finish(r) \/ Scan(r) \/ ScanEnd(r)
                  \/ Record(r)

Next == Backtest \/ Generate

Spec == Init /\ [][Next]_vars

SpecPair == InitPair /\ [][Backtest]_vars

SpecMtf == InitMtf /\ [][Aggregate]_vars

SpecAnalyzer == InitAnalyzer /\ [][Analyse]_vars

SpecOptimizer == InitOptimizer /\ [][Optimize]_vars

SpecIndicators == InitIndicators /\ [][Indicators]_vars

(***************************************************************************)
(* Properties of the backtester                                            *)
(***************************************************************************)
\* the trades the first call has recorded, and the candle at a JavaScript index
Trades == runs[1].results.trades
Candle(j) == HistoryOf(runs[1].scenario)[j + 1]

\* C1: recorded trades never overlap: each trade is entered no earlier than
\* the bar on which the trade recorded before it exited
C1_TradesNeverOverlap ==
  \A n \in 1..(Len(Trades) - 1) :
    Trades[n + 1].entryBar >= Trades[n].entryBar + Trades[n].barsHeld

\* two trades are recorded, the first held for more than one bar
C1_Witness ==
  /\ Len(Trades) >= 2
  /\ Trades[1].barsHeld > 1

\* the bars of a trade's forward window on which its stop or its target is hit
HitBars(t) ==
  {j \in (t.entryBar + 1)..(t.entryBar + 19) :
     \/ Candle(j).low <= t.stopLoss.v
     \/ Candle(j).high >= t.takeProfit.v}
FirstHit(t) == CHOOSE j \in HitBars(t) : \A k \in HitBars(t) : j <= k

\* C3: a trade exits at the first of the bars i+1 .. i+19 that touches its
\* stop (Stop Loss at the stop) or its target (Take Profit at the target), the
\* stop winning on a bar that touches both; a trade no bar touches exits at
\* the close of bar i+19 as a Time Exit held 19 bars
C3_ExitAtFirstHit ==
  \A n \in 1..Len(Trades) :
    IF HitBars(Trades[n]) = {}
    THEN /\ Trades[n].exitType = "Time Exit"
         /\ Trades[n].exitPrice = N(Candle(Trades[n].entryBar + 19).close)
         /\ Trades[n].barsHeld = 19
    ELSE /\ Trades[n].barsHeld = FirstHit(Trades[n]) - Trades[n].entryBar
         /\ IF Candle(FirstHit(Trades[n])).low <= Trades[n].stopLoss.v
            THEN /\ Trades[n].exitType = "Stop Loss"
                 /\ Trades[n].exitPrice = Trades[n].stopLoss
            ELSE /\ Trades[n].exitType = "Take Profit"
                 /\ Trades[n].exitPrice = Trades[n].takeProfit

\* a recorded trade whose exit bar touches both its stop and its target
C3_Witness ==
  \E n \in 1..Len(Trades) :
    /\ HitBars(Trades[n]) # {}
    /\ Candle(FirstHit(Trades[n])).low <= Trades[n].stopLoss.v
    /\ Candle(FirstHit(Trades[n])).high >= Trades[n].takeProfit.v
    /\ Trades[n].exitType = "Stop Loss"

\* C4: a call with fewer than 250 candles returns an object with the field
\* error alone and has analysed nothing; a call with 250 candles or more
\* returns an object without the field error
C4_ShortHistoryIsAnError ==
  runs[1].pc = "done" =>
    IF runs[1].scenario.length < 250
    THEN DOMAIN runs[1].returned = {"error"} /\ runs[1].decisions = << >>
    ELSE "error" \notin DOMAIN runs[1].returned

\* a call with 249 candles has returned
C4_Witness ==
  /\ runs[1].pc = "done"
  /\ runs[1].scenario.length = 249
  /\ "error" \in DOMAIN runs[1].returned

\* what the first call has returned
Returned == runs[1].returned
Finished == runs[1].pc = "done" /\ Len(Trades) >= 1

\* the winning and the losing trades, and sums over trades
Winners == {n \in 1..Len(Trades) : Trades[n].pnl.v > 0}
Losers == {n \in 1..Len(Trades) : Trades[n].pnl.v <= 0}
RECURSIVE SumOfPnl(_)
SumOfPnl(S) ==
  IF S = {} THEN 0
  ELSE LET n == CHOOSE x \in S : TRUE
       IN  (IF Trades[n].pnl.v < 0 THEN 0 - Trades[n].pnl.v ELSE Trades[n].pnl.v)
           + SumOfPnl(S \ {n})
MeanOfPnl(S) == IF S = {} THEN 0 ELSE SumOfPnl(S) \div Cardinality(S)

\* the counts, the win rate, the two means and the expectancy of C5
CountsAndMeans ==
  /\ Returned.totalTrades = Len(Returned.trades)
  /\ Returned.totalTrades = Returned.winningTrades + Returned.losingTrades
  /\ Returned.winningTrades = Cardinality(Winners)
  /\ Returned.winRate = (100 * 100 * Returned.winningTrades) \div Returned.totalTrades
  /\ Returned.averageProfit = MeanOfPnl(Winners)
  /\ Returned.averageLoss = MeanOfPnl(Losers)
  /\ Returned.expectancy =
       (Returned.winRate * Returned.averageProfit) \div 10000
       - ((10000 - Returned.winRate) * Returned.averageLoss) \div 10000

\* C5 (as amended): after a backtest with a trade, totalTrades = winningTrades
\* + losingTrades = the number of trades, winRate = 100 * winningTrades /
\* totalTrades, averageProfit and averageLoss are the mean pnl and the mean
\* |pnl| of the winning and of the losing trades (each 0 when there is no
\* such trade), expectancy is as claimed, and profitFactor = averageProfit /
\* averageLoss when averageLoss > 0 and 0 when averageLoss = 0
C5_StatisticsGuarded ==
  Finished =>
    /\ CountsAndMeans
    /\ Returned.profitFactor =
         IF Returned.averageLoss > 0
         THEN (Returned.averageProfit * 10000) \div Returned.averageLoss
         ELSE 0

\* a finished backtest whose trades all won: no average loss to divide by
C5_Witness ==
  /\ Finished
  /\ Winners # {}
  /\ Losers = {}
  /\ Returned.averageProfit > 0
  /\ Returned.averageLoss = 0
  /\ Returned.profitFactor = 0

\* averageProfit / averageLoss as JavaScript divides
Infinity == [t |-> "infinity"]
Quotient(a, b) ==
  IF b # 0 THEN N((a * 10000) \div b) ELSE IF a = 0 THEN NaN ELSE Infinity

\* C5 (as claimed): profitFactor = averageProfit / averageLoss after every
\* backtest with a trade
C5_ProfitFactorIsTheQuotient ==
  Finished =>
    /\ CountsAndMeans
    /\ N(Returned.profitFactor) = Quotient(Returned.averageProfit, Returned.averageLoss)

\* the trade reaches its take profit within 10 bars, and no bar up to that one
\* touches its stop
ReachesTargetFirst(t) ==
  \E j \in (t.entryBar + 1)..(t.entryBar + 10) :
    /\ Candle(j).high >= t.takeProfit.v
    /\ \A k \in (t.entryBar + 1)..j : Candle(k).low > t.stopLoss.v

\* C6: a backtest whose k trades all reach their take profit within 10 bars
\* before any touch of their stop reports k trades, k winners, no loser and a
\* win rate of 100
C6_AllTargetsAllWinners ==
  (/\ Finished
   /\ \A n \in 1..Len(Trades) : ReachesTargetFirst(Trades[n]))
  => /\ Returned.totalTrades = Len(Trades)
     /\ Returned.winningTrades = Len(Trades)
     /\ Returned.losingTrades = 0
     /\ Returned.winRate = 100 * 100

\* the analyses the first call has made
Decisions == runs[1].decisions

\* the points of a signal label
PointsOf(label) ==
  CASE label = "Price consolidation detected" -> 20
    [] label = "RSI in optimal range" -> 15
    [] label = "Bollinger Band compression" -> 15
    [] label = "Bollinger Band breakout" -> 20
    [] label = "Price above EMA200" -> 10
    [] label = "Volume increasing" -> 15
    [] label = "Positive RSI divergence" -> 15
    [] label = "MACD bullish crossover" -> 15
    [] label = "OBV accumulation" -> 10
    [] label = "Ideal breakout percentage" -> 15
RECURSIVE PointsOfAll(_)
PointsOfAll(labels) ==
  IF labels = << >> THEN 0 ELSE PointsOf(Head(labels)) + PointsOfAll(Tail(labels))

\* C7: breakoutScore is the sum of the points of the conditions that hold,
\* at most 100, an integer in 0..100, and the analysis is a candidate exactly
\* when breakoutScore >= 70
C7_ScoreIsTheClampedSum ==
  \A n \in 1..Len(Decisions) :
    /\ Decisions[n].analysis.breakoutScore
         = (IF PointsOfAll(Decisions[n].analysis.signals) > 100 THEN 100
            ELSE PointsOfAll(Decisions[n].analysis.signals))
    /\ Decisions[n].analysis.breakoutScore \in 0..100
    /\ Decisions[n].analysis.isBreakoutCandidate
         <=> Decisions[n].analysis.breakoutScore >= 70

\* an analysis whose conditions sum to more than 100 points, and one that
\* scores less than 70
C7_Witness ==
  /\ \E n \in 1..Len(Decisions) :
       /\ PointsOfAll(Decisions[n].analysis.signals) > 100
       /\ Decisions[n].analysis.isBreakoutCandidate
  /\ \E n \in 1..Len(Decisions) : ~Decisions[n].analysis.isBreakoutCandidate

\* x rounded to 4 decimals: to the nearest multiple of 1000 units, halves up
RoundedTo4(x) == ((x + 500) \div 1000) * 1000
\* the stop of C8 for the analysis at step i: the last close of the slice less
\* its ATR, rounded
StopOf(d) == RoundedTo4(Candle(d.i - 1).close - d.analysis.atr.v)

\* the latest close of a dataset of the signal call
LatestClose(field) ==
  Dataset(sg.coinData[field])[Len(Dataset(sg.coinData[field]))].close

\* C8: a candidate with an ATR has suggestedStopLoss = round4(price - ATR) and
\* suggestedTakeProfit = round4(price + 3 * (price - suggestedStopLoss)),
\* whatever riskRewardRatio the options of the backtest hold; and the target
\* of a signal is at 3 times the risk to its stop from the latest close of
\* its 4-hour or hourly data, whatever riskRewardRatio its options hold
C8_LevelsAtOneToThree ==
  /\ \A n \in 1..Len(Decisions) :
       (Decisions[n].analysis.isBreakoutCandidate /\ Decisions[n].analysis.atr # Null)
       => /\ Decisions[n].analysis.suggestedStopLoss = N(StopOf(Decisions[n]))
          /\ Decisions[n].analysis.suggestedTakeProfit
               = N(RoundedTo4(Candle(Decisions[n].i - 1).close
                              + 3 * (Candle(Decisions[n].i - 1).close
                                     - StopOf(Decisions[n]))))
  /\ (sg.pc = "returned" /\ sg.result.success /\ sg.result.stopLoss.t = "num")
     => \E f \in {"fourHourData", "hourlyData"} :
          /\ sg.coinData[f] # "empty"
          /\ sg.result.takeProfit
               = N(RoundedTo4(LatestClose(f)
                              + 3 * (LatestClose(f) - sg.result.stopLoss.v)))

\* a candidate of a call whose options ask for a ratio of 5, its stop rounded
C8_Witness ==
  /\ "riskRewardRatio" \in DOMAIN runs[1].options
  /\ \E n \in 1..Len(Decisions) :
       /\ Decisions[n].analysis.isBreakoutCandidate
       /\ Decisions[n].analysis.atr # Null
       /\ StopOf(Decisions[n])
            # Candle(Decisions[n].i - 1).close - Decisions[n].analysis.atr.v

(***************************************************************************)
(* Two calls of the backtester                                             *)
(***************************************************************************)
\* the first bar at which the histories of the two calls differ
FirstDifference(h1, h2) ==
  CHOOSE d \in 0..Len(h1) :
    /\ \A k \in 0..(d - 1) : h1[k + 1] = h2[k + 1]
    /\ d < Len(h1) => h1[d + 1] # h2[d + 1]

SameDecision(a1, a2) ==
  /\ a1.isBreakoutCandidate = a2.isBreakoutCandidate
  /\ Get(a1, "suggestedStopLoss") = Get(a2, "suggestedStopLoss")
  /\ Get(a1, "suggestedTakeProfit") = Get(a2, "suggestedTakeProfit")

\* the analyses the two calls made at one step, the histories agreeing on
\* every bar before the step, decide the same
SameDecisionsUpTo(d) ==
  \A m \in 1..Len(runs[1].decisions), n \in 1..Len(runs[2].decisions) :
    (/\ runs[1].decisions[m].i = runs[2].decisions[n].i
     /\ runs[1].decisions[m].i <= d)
    => SameDecision(runs[1].decisions[m].analysis, runs[2].decisions[n].analysis)

\* C2: two calls on histories of one length and with the same options, the
\* histories agreeing on every bar before i: at step i both open a trade or
\* neither does, and the trades they open have the same stop and target
C2_NoLookahead ==
  (runs[1].pc # "idle" /\ runs[2].pc # "idle")
  => SameDecisionsUpTo(FirstDifference(HistoryOf(runs[1].scenario),
                                       HistoryOf(runs[2].scenario)))

\* both calls open a trade at the bar at which their histories first differ
BothOpenAt(d) ==
  \E m \in 1..Len(runs[1].decisions), n \in 1..Len(runs[2].decisions) :
    /\ runs[1].decisions[m].i = d
    /\ runs[2].decisions[n].i = d
    /\ runs[1].decisions[m].analysis.isBreakoutCandidate
    /\ runs[2].decisions[n].analysis.isBreakoutCandidate
C2_Witness ==
  /\ runs[1].pc # "idle" /\ runs[2].pc # "idle"
  /\ BothOpenAt(FirstDifference(HistoryOf(runs[1].scenario),
                                HistoryOf(runs[2].scenario)))

(***************************************************************************)
(* Properties of the signal generator                                      *)
(***************************************************************************)
\* a limit of the signal call: the option, or its default
LimitOr(field, dflt) ==
  IF field \in DOMAIN sg.options THEN sg.options[field] ELSE dflt

\* the highest high and the lowest low of the last 20 daily candles
LastTwenty ==
  {Dataset(sg.coinData.dailyData)[k] :
     k \in (Len(Dataset(sg.coinData.dailyData)) - 19)
             ..Len(Dataset(sg.coinData.dailyData))}
HighOfTwenty == CHOOSE h \in {c.high : c \in LastTwenty} :
                  \A c \in LastTwenty : c.high <= h
LowOfTwenty == CHOOSE l \in {c.low : c \in LastTwenty} :
                 \A c \in LastTwenty : l <= c.low

\* gate 3, on the analysis the call made
MeetsCriteria ==
  /\ sg.mtfAnalysis.mtfScore >= LimitOr("minMTFScore", 75)
  /\ sg.mtfAnalysis.alignmentScore >= LimitOr("minAlignmentScore", 4)
  /\ sg.mtfAnalysis.dailyScore >= LimitOr("minDailyScore", 65)
  /\ \/ sg.mtfAnalysis.profitPotential \in {"High", "Very High"}
     \/ sg.mtfAnalysis.profitPotential = "Medium" /\ sg.mtfAnalysis.mtfScore > 85

\* gate 4: stopLossPercent <= maxStopLossPercent, the limit in hundredths of
\* a percent
StopWithinLimit ==
  /\ sg.mtfAnalysis.suggestedStopLoss.t = "num"
  /\ (LatestClose("hourlyData") - sg.mtfAnalysis.suggestedStopLoss.v) * 10000
       <= LimitOr("maxStopLossPercent", 500) * LatestClose("hourlyData")

\* the message of the first gate that fails, in the order of C9
FirstFailedGate ==
  IF "absent" \in {sg.coinData.hourlyData, sg.coinData.fourHourData,
                   sg.coinData.dailyData}
  THEN "Missing required timeframe data"
  ELSE IF LatestClose("hourlyData") > LimitOr("maxPrice", 10000000)
  THEN "Price above maximum threshold"
  ELSE IF ~MeetsCriteria THEN "Does not meet signal criteria"
  ELSE IF ~StopWithinLimit THEN "Stop loss percentage too high"
  ELSE IF (HighOfTwenty - LatestClose("hourlyData")) * 100
            < 3 * LatestClose("hourlyData")
  THEN "Price too close to 20-day high"
  ELSE IF 2 * (HighOfTwenty - LowOfTwenty) > LowOfTwenty
  THEN "Coin volatility too high"
  ELSE "none"

\* C9: a call of generateBreakoutSignal returns success:false with the message
\* of the first gate that fails, in the order presence, price, criteria, stop,
\* 20-day high, volatility, and success:true exactly when no gate fails
C9_FirstFailedGateDecides ==
  sg.pc \in {"returned", "threw"} =>
    /\ sg.pc = "returned"
    /\ IF FirstFailedGate = "none"
       THEN sg.result.success
       ELSE ~sg.result.success /\ sg.result.message = FirstFailedGate

\* C10: a call of generateBreakoutSignal whose datasets are absent or arrays
\* of any length, the empty one included, returns and does not throw
C10_NeverThrows == sg.pc # "threw"

(***************************************************************************)
(* Properties of the multi-timeframe analysis                              *)
(***************************************************************************)
\* a direct call of multiTimeframeAnalysis has returned
Aggregated == lib.pc = "returned" /\ lib.fn = "multiTimeframeAnalysis"

\* C11: multiTimeframeAnalysis reports isConfirmedBreakout exactly when
\* alignmentScore >= 4 and the returned mtfScore, the weighted score rounded
\* to the nearest integer, is >= 75
C11_ConfirmedAtRoundedScore ==
  Aggregated =>
    (lib.result.isConfirmedBreakout
       <=> lib.result.alignmentScore >= 4 /\ lib.result.mtfScore >= 75)

\* the value of a field in the first of the daily, the four-hour and the
\* hourly analysis that has it
FirstOf(field) ==
  IF field \in DOMAIN lib.analyses.daily THEN lib.analyses.daily[field]
  ELSE IF field \in DOMAIN lib.analyses.fourHour THEN lib.analyses.fourHour[field]
  ELSE IF field \in DOMAIN lib.analyses.hourly THEN lib.analyses.hourly[field]
  ELSE Undefined

\* C12: the stop, the target, the profit potential and the risk level that
\* multiTimeframeAnalysis returns are the daily analysis's when it has them,
\* otherwise the four-hour analysis's, otherwise the hourly analysis's
C12_DailyValuesFirst ==
  Aggregated =>
    /\ lib.result.suggestedStopLoss = FirstOf("suggestedStopLoss")
    /\ lib.result.suggestedTakeProfit = FirstOf("suggestedTakeProfit")
    /\ lib.result.profitPotential = FirstOf("profitPotential")
    /\ lib.result.riskLevel = FirstOf("riskLevel")

\* 1 when the analysis of a timeframe is a breakout candidate, else 0
IsCandidate(timeframe) ==
  IF lib.analyses[timeframe].isBreakoutCandidate THEN 1 ELSE 0
\* the signals of a timeframe, each behind the tag of the timeframe
Tagged(tag, timeframe) ==
  [k \in 1..Len(lib.analyses[timeframe].signals) |->
     tag \o lib.analyses[timeframe].signals[k]]
\* twenty times 0.2 * hourlyScore + 0.3 * fourHourScore + 0.5 * dailyScore
TwentyTimesWeighted ==
  4 * lib.analyses.hourly.breakoutScore + 6 * lib.analyses.fourHour.breakoutScore
  + 10 * lib.analyses.daily.breakoutScore

\* C13: alignmentScore is 1, 2 and 3 points for an hourly, a four-hour and a
\* daily candidate, an integer in 0..6; mtfScore is the weighted score
\* 0.2 * hourly + 0.3 * fourHour + 0.5 * daily rounded to the nearest integer
\* (a half rounds up), in 0..100; combinedSignals is the hourly signals tagged
\* '1H: ', then the four-hour signals tagged '4H: ', then the daily signals
\* tagged '1D: ', each group in its analysis's order
C13_AlignmentScoreAndSignals ==
  Aggregated =>
    /\ lib.result.alignmentScore
         = 1 * IsCandidate("hourly") + 2 * IsCandidate("fourHour")
           + 3 * IsCandidate("daily")
    /\ lib.result.alignmentScore \in 0..6
    /\ lib.result.mtfScore \in 0..100
    /\ 20 * lib.result.mtfScore - 10 <= TwentyTimesWeighted
    /\ TwentyTimesWeighted < 20 * lib.result.mtfScore + 10
    /\ lib.result.combinedSignals
         = Tagged("1H: ", "hourly") \o Tagged("4H: ", "fourHour")
           \o Tagged("1D: ", "daily")

\* the hourly and the daily analysis are candidates, the four-hour one is not,
\* the weighted score ends in a half, and every timeframe has signals
C13_Witness ==
  /\ Aggregated
  /\ lib.result.alignmentScore = 4
  /\ TwentyTimesWeighted % 20 = 10
  /\ \A t \in {"hourly", "fourHour", "daily"} : lib.analyses[t].signals # << >>

(***************************************************************************)
(* Properties of the signal generator's estimates                          *)
(***************************************************************************)
\* the call of generateBreakoutSignal has returned a signal
Emitted == sg.pc = "returned" /\ sg.result.success

\* C14: every signal generateBreakoutSignal returns with success:true has a
\* confidence from 1 to 10 (here in tenths) and a successProbability from 60
\* to 95
C14_ConfidenceAndProbabilityInRange ==
  Emitted =>
    /\ 1 * 10 <= sg.result.confidence /\ sg.result.confidence <= 10 * 10
    /\ 60 <= sg.result.successProbability /\ sg.result.successProbability <= 95

\* a signal whose three timeframes all score 100: its confidence is capped
C14_Witness ==
  /\ Emitted
  /\ sg.result.mtfAnalysis.score = 100
  /\ sg.result.mtfAnalysis.alignmentScore = 6
  /\ sg.result.profitPotential = "High"
  /\ sg.result.confidence = 10 * 10

(***************************************************************************)
(* Properties of the analyzer on short and on flat series, and of its      *)
(* configuration                                                           *)
(***************************************************************************)
\* a direct call of analyzeBreakout has returned
Analysed == lib.pc = "returned" /\ lib.fn = "analyzeBreakout"

\* the value a caller supplies for a field, and the default when it supplies none
Supplied(field, dflt) ==
  IF field \in DOMAIN lib.options THEN lib.options[field] ELSE dflt
ConfigAsSupplied ==
  [consolidationPeriod |-> Supplied("consolidationPeriod", 6),
   consolidationThreshold |-> Supplied("consolidationThreshold", 1500),
   rsiLowerThreshold |-> Supplied("rsiLowerThreshold", 5000),
   rsiUpperThreshold |-> Supplied("rsiUpperThreshold", 7500),
   volumeIncreaseThreshold |-> Supplied("volumeIncreaseThreshold", 1000),
   minBreakoutPercent |-> Supplied("minBreakoutPercent", 100),
   maxBreakoutPercent |-> Supplied("maxBreakoutPercent", 2000),
   bollingerPeriod |-> Supplied("bollingerPeriod", 20),
   atrPeriod |-> Supplied("atrPeriod", 14),
   lookbackPeriod |-> Supplied("lookbackPeriod", 20),
   ema200Required |-> Supplied("ema200Required", TRUE)]

\* C18: every field of the configuration is overridable: analyzeBreakout
\* analyses with the value the caller supplies for a field, the value 0
\* included, and with the default only where the caller supplies none
C18_SuppliedValuesAreUsed ==
  Analysed =>
    lib.result = AnalyzeWith(Closes(Series(lib.data)), Highs(Series(lib.data)),
                             Lows(Series(lib.data)), Volumes(Series(lib.data)),
                             ConfigAsSupplied)

\* C19: analyzeBreakout on fewer than 20 candles, none included, returns, with
\* isBreakoutCandidate false and both profitPotential and riskLevel 'Unknown'
C19_ShortInputIsNoCandidate ==
  lib.fn = "analyzeBreakout" /\ lib.pc # "call" /\ lib.data.length < 20 =>
    /\ lib.pc = "returned"
    /\ ~lib.result.isBreakoutCandidate
    /\ lib.result.profitPotential = "Unknown"
    /\ lib.result.riskLevel = "Unknown"

\* every open, high, low and close is the same positive price and every
\* volume is zero
StrictlyFlat(data) ==
  /\ data # << >>
  /\ data[1].close > 0
  /\ \A k \in 1..Len(data) :
       /\ {data[k].open, data[k].high, data[k].low, data[k].close} = {data[1].close}
       /\ data[k].volume = 0

\* C20: analyzeBreakout on a strictly flat series of at least 220 candles with
\* zero volume returns isBreakoutCandidate false, with and without the EMA200
\* requirement
C20_FlatSeriesIsNoCandidate ==
  Analysed /\ StrictlyFlat(Series(lib.data)) /\ Len(Series(lib.data)) >= 220 =>
    ~lib.result.isBreakoutCandidate

\* a flat series analysed without the EMA200 requirement: it scores for its
\* consolidation, its band compression and the waived requirement only
C20_Witness ==
  /\ Analysed
  /\ StrictlyFlat(Series(lib.data))
  /\ Len(Series(lib.data)) >= 220
  /\ lib.options = [ema200Required |-> FALSE]
  /\ lib.result.breakoutScore = 20 + 15 + 10

(***************************************************************************)
(* Properties of the parameter optimizer                                   *)
(***************************************************************************)
\* the evaluations the call of optimizeParameters has made, the initial one first
Evaluated == opt.evaluated

\* the first evaluation whose score no evaluation exceeds
FirstBest ==
  CHOOSE k \in 1..Len(Evaluated) :
    /\ \A n \in 1..Len(Evaluated) : Evaluated[n].score <= Evaluated[k].score
    /\ \A n \in 1..(k - 1) : Evaluated[n].score < Evaluated[k].score

TenTimesScore(backtest) ==
  IF "error" \in DOMAIN backtest THEN 0
  ELSE IF backtest.totalTrades < 10 THEN 0
  ELSE 6 * backtest.winRate * 100
       + (IF 10 * backtest.profitFactor < 30 * 10000
          THEN 10 * backtest.profitFactor ELSE 30 * 10000) * 10
       + (IF backtest.totalTrades < 100 THEN backtest.totalTrades ELSE 100) * 10000

\* C16: evaluateParameters returns 0 when the backtest returned an error or
\* recorded fewer than 10 trades, and otherwise
\* 0.6 * winRate + min(10 * profitFactor, 30) + min(totalTrades, 100) / 10,
\* which lies in 0..100
C16_ScoreOfABacktest ==
  \A k \in 1..Len(Evaluated) :
    /\ 10 * Evaluated[k].score = TenTimesScore(Evaluated[k].backtest)
    /\ 0 <= Evaluated[k].score /\ Evaluated[k].score <= 100 * 10000

\* a backtest with fewer than 10 trades has scored 0 and one with 10 trades
\* has scored above 0
C16_Witness ==
  /\ \E k \in 1..Len(Evaluated) :
       /\ "error" \notin DOMAIN Evaluated[k].backtest
       /\ Evaluated[k].backtest.totalTrades \in 1..9
       /\ Evaluated[k].score = 0
  /\ \E k \in 1..Len(Evaluated) :
       /\ "error" \notin DOMAIN Evaluated[k].backtest
       /\ Evaluated[k].backtest.totalTrades >= 10
       /\ Evaluated[k].score > 0

\* the field of a variation before it is clamped: the base value and the
\* adjustment of its random number
Perturbed(i, j) ==
  opt.baseParams[Adjustments[j].field]
  + ((2 * RandomOf(opt.stream, i, j) - RandomSteps) * Adjustments[j].amount)
      \div RandomSteps

\* a value clamped to a range <<min, max>>
ClampedTo(range, value) ==
  IF value < range[1] THEN range[1] ELSE IF value > range[2] THEN range[2] ELSE value

\* every field of every variation is its perturbed value clamped to its range
ClampedToRanges(ranges) ==
  \A i \in 1..Len(opt.paramVariations) : \A j \in 1..Len(Adjustments) :
    opt.paramVariations[i][Adjustments[j].field]
      = ClampedTo(ranges[Adjustments[j].field], Perturbed(i, j))

\* the ranges of the Config table, in the units of a parameter set
TableRanges ==
  [consolidationPeriod |-> <<300, 2000>>, consolidationThreshold |-> <<500, 3000>>,
   rsiLowerThreshold |-> <<4000, 6000>>, rsiUpperThreshold |-> <<7000, 8500>>,
   volumeIncreaseThreshold |-> <<500, 3000>>, minBreakoutPercent |-> <<50, 500>>,
   maxBreakoutPercent |-> <<1000, 4000>>, riskRewardRatio |-> <<20000, 50000>>,
   maxStopLossPercent |-> <<300, 800>>]

\* C17 as claimed: every field of every candidate is clamped to exactly its
\* range in the Config table, consolidationPeriod to [3,20], so that a base
\* consolidationPeriod of 10 can be perturbed above 10 and one of 4 below 4
C17_ClampedToTableRanges == ClampedToRanges(TableRanges)

\* C17: every field of every candidate is clamped to exactly its range in the
\* Config table, except consolidationPeriod, which is clamped to [4,10], so
\* that a base consolidationPeriod of 10 is not perturbed above 10 nor one of
\* 4 below 4
C17_ClampedToOptimizerRanges ==
  ClampedToRanges([TableRanges EXCEPT !.consolidationPeriod = <<400, 1000>>])

\* a variation of a base consolidationPeriod of 10 whose adjustment is upward
C17_Witness ==
  /\ opt.paramVariations # << >>
  /\ opt.baseParams.consolidationPeriod = 1000
  /\ \E i \in 1..Len(opt.paramVariations) :
       /\ Perturbed(i, 1) > 1000
       /\ opt.paramVariations[i].consolidationPeriod = 1000

(***************************************************************************)
(* Properties of the indicator library                                     *)
(***************************************************************************)
\* a call of one of the seven indicator functions has returned
Indicated == lib.pc = "returned" /\ lib.fn \in IndicatorNames

\* C21: every indicator function returns an array as long as its input
\* series (its first array), whatever the length of the input, shorter than
\* the period included; when the arrays of calculateATR or calculateOBV
\* differ in length, every entry of that array is null.
C21_AsLongAsTheInput ==
  Indicated =>
    /\ Len(lib.result) = lib.data.length
    /\ lib.data.mismatch # "none" =>
          \A i \in 1..Len(lib.result) : lib.result[i] = Null

\* a call of calculateSMA, calculateEMA, calculateRSI or calculateATR on
\* arrays of one length of at least period + 5 has returned
WarmedUp ==
  /\ lib.pc = "returned"
  /\ lib.fn \in {"calculateSMA", "calculateEMA", "calculateRSI", "calculateATR"}
  /\ lib.data.mismatch = "none"
  /\ lib.data.length >= lib.options.period + 5
\* the number of nulls an indicator's result starts with
LeadingNulls ==
  IF lib.fn = "calculateRSI" THEN lib.options.period ELSE lib.options.period - 1

\* C22: on an input of at least period + 5 prices, the results of
\* calculateSMA, calculateEMA and calculateATR start with exactly period - 1
\* nulls and the result of calculateRSI with exactly period nulls, and every
\* index after them holds a value that is not null.
C22_LeadingNullsThenValues ==
  WarmedUp =>
    \A i \in 1..lib.data.length :
      /\ i \in DOMAIN lib.result
      /\ lib.result[i] = Null <=> i <= LeadingNulls

C22_Witness ==
  /\ WarmedUp
  /\ lib.fn = "calculateRSI"
  /\ lib.data.length = lib.options.period + 5
  /\ lib.result[LeadingNulls] = Null
  /\ IsNum(lib.result[LeadingNulls + 1])
  /\ IsNum(lib.result[lib.data.length])

\* a call of calculateRSI on at least period + 1 prices has returned
RsiReturned ==
  /\ lib.pc = "returned"
  /\ lib.fn = "calculateRSI"
  /\ lib.data.length >= lib.options.period + 1
\* the result of calculateRSI on the prices of the call before their scaling
UnscaledRSI ==
  calculateRSI(Prices([lib.data EXCEPT !.scale = 1]), lib.options.period)
\* a price up to index i is lower than the price before it, so that the
\* average loss at index i is not 0
FellUpTo(i) ==
  \E j \in 2..i : Prices(lib.data)[j] < Prices(lib.data)[j - 1]

Filtered == lib.pc = "returned" /\ lib.fn = "filterSignalsForHighAccuracy"

\* the elements of sub are elements of list, unchanged and in its order
RECURSIVE IsSubList(_, _)
IsSubList(sub, list) ==
  IF sub = << >> THEN TRUE
  ELSE IF list = << >> THEN FALSE
  ELSE IF Head(sub) = Head(list) THEN IsSubList(Tail(sub), Tail(list))
  ELSE IsSubList(sub, Tail(list))

\* C24: the result of filterSignalsForHighAccuracy is a sub-list of its
\* input, with the elements unchanged and in their order, and filtering the
\* result again under the same options returns the result.
C24_FilterIsIdempotent ==
  Filtered =>
    /\ IsSubList(lib.result, lib.data)
    /\ filterSignalsForHighAccuracy(lib.result, lib.options) = lib.result

C24_Witness ==
  /\ Filtered
  /\ Len(lib.data) = MaxSignals
  /\ Len(lib.result) \in 2..(MaxSignals - 1)
  /\ "minConfidence" \in DOMAIN lib.options

(***************************************************************************)
(* Properties of the divergence detector                                   *)
(***************************************************************************)
Diverged == lib.pc = "returned" /\ lib.fn = "detectPositiveRSIDivergence"

\* the prices and the RSI values of the lookback window, by JavaScript index
RecentPrice(w) == WindowPrices(lib.data)[lib.data.length - LookbackPeriod + w + 1]
RecentRSI(w) == WindowRSI(lib.data)[lib.data.length - LookbackPeriod + w + 1]

\* the indices of the window whose price is lower than each of the 5 prices
\* before it and the 5 prices after it
StrictLows ==
  {i \in 5..(LookbackPeriod - 6) :
     \A k \in ((i - 5)..(i + 5)) \ {i} : RecentPrice(i) < RecentPrice(k)}
FirstStrictLow == CHOOSE i \in StrictLows : \A k \in StrictLows : i <= k
SecondStrictLow ==
  CHOOSE i \in StrictLows \ {FirstStrictLow} :
    \A k \in StrictLows \ {FirstStrictLow} : i <= k
\* true exactly when the first two strict lows exist and the second has a
\* lower price and a higher RSI than the first
DivergenceAtStrictLows ==
  /\ lib.data.length >= LookbackPeriod
  /\ Cardinality(StrictLows) >= 2
  /\ RecentPrice(SecondStrictLow) < RecentPrice(FirstStrictLow)
  /\ JsGt(RecentRSI(SecondStrictLow), RecentRSI(FirstStrictLow))

\* C25: the result of detectPositiveRSIDivergence is true exactly when the
\* first two local minima of the window exist, a local minimum being a price
\* strictly lower than each of the 5 before it and the 5 after it, and the
\* second of them has a lower price and a higher RSI than the first; the
\* windows with equal adjacent prices included.
C25_DivergenceOfStrictLows == Diverged => lib.result = DivergenceAtStrictLows

(***************************************************************************)
(* Properties of the levels of trades and signals                          *)
(***************************************************************************)
\* C26: every trade the backtester records has a stop and a target that are
\* numbers with stopLoss < entryPrice < takeProfit, so that its pnl is
\* negative when it exits at the stop and positive when it exits at the
\* target.
C26_TradesAreLongBrackets ==
  \A n \in 1..Len(Trades) :
    /\ IsNum(Trades[n].stopLoss)
    /\ IsNum(Trades[n].takeProfit)
    /\ Trades[n].stopLoss.v < Trades[n].entryPrice
    /\ Trades[n].entryPrice < Trades[n].takeProfit.v
    /\ Trades[n].exitType = "Stop Loss" => Trades[n].pnl.v < 0
    /\ Trades[n].exitType = "Take Profit" => Trades[n].pnl.v > 0

\* C27: every signal generateBreakoutSignal returns with success:true under
\* a minAlignmentScore from 3 to 6 has a stop and a target that are numbers
\* with stopLoss < entryPrice < takeProfit, and so a riskRewardRatio and a
\* potentialLossPercent that are positive numbers.
C27_SignalsAreLongBrackets ==
  (Emitted /\ SignalConfig(sg.options).minAlignmentScore \in 3..6) =>
    /\ IsNum(sg.result.stopLoss)
    /\ IsNum(sg.result.takeProfit)
    /\ sg.result.stopLoss.v < sg.result.entryPrice.v
    /\ sg.result.entryPrice.v < sg.result.takeProfit.v
    /\ JsGt(sg.result.riskRewardRatio, N(0))
    /\ JsGt(sg.result.potentialLossPercent, N(0))

(***************************************************************************)
(* Properties of the bars of the trades                                    *)
(***************************************************************************)
\* the number of candles of the first call's history
HistoryLength == Len(HistoryOf(runs[1].scenario))

\* C28: every trade recorded on a history of L >= 250 candles has
\* 200 <= entryBar <= L - 21, 1 <= barsHeld <= 19, entryBar + barsHeld <= L - 1,
\* one of the three exit types and an exit price that is not null; and
\* entryBar increases strictly along the trades.
C28_TradesWithinTheWalk ==
  \A n \in 1..Len(Trades) :
    /\ HistoryLength >= 250
    /\ 200 <= Trades[n].entryBar /\ Trades[n].entryBar <= HistoryLength - 21
    /\ 1 <= Trades[n].barsHeld /\ Trades[n].barsHeld <= 19
    /\ Trades[n].entryBar + Trades[n].barsHeld <= HistoryLength - 1
    /\ Trades[n].exitType \in {"Stop Loss", "Take Profit", "Time Exit"}
    /\ Trades[n].exitPrice # Null
    /\ n > 1 => Trades[n - 1].entryBar < Trades[n].entryBar

\* a trade entered at the last bar of the walk and held to the time exit
C28_Witness ==
  /\ runs[1].pc = "done"
  /\ \E n \in 1..Len(Trades) :
        /\ Trades[n].entryBar = HistoryLength - 21
        /\ Trades[n].exitType = "Time Exit"
        /\ Trades[n].barsHeld = 19

(***************************************************************************)
(* Properties of the signals of an analysis                                *)
(***************************************************************************)
\* the ten labels of the rule table, in its order
RuleLabels ==
  << "Price consolidation detected", "RSI in optimal range",
     "Bollinger Band compression", "Bollinger Band breakout", "Price above EMA200",
     "Volume increasing", "Positive RSI divergence", "MACD bullish crossover",
     "OBV accumulation", "Ideal breakout percentage" >>
\* signals holds labels of the rule table, each once, in the table's order
InTableOrder(signals) ==
  /\ IsSubList(signals, RuleLabels)
  /\ Cardinality({signals[k] : k \in 1..Len(signals)}) = Len(signals)
\* the call has set ema200Required to false
Ema200Waived == "ema200Required" \in DOMAIN lib.options /\ ~lib.options.ema200Required

\* C29 as claimed: in every result of analyzeBreakout, signals holds labels
\* of the rule table, each once and in the table's order, and breakoutScore
\* is the sum of the weights of these labels, at most 100; under every
\* configuration, ema200Required = false included.
C29_SignalsAccountForScore ==
  Analysed =>
    /\ InTableOrder(lib.result.signals)
    /\ lib.result.breakoutScore = Min2(100, PointsOfAll(lib.result.signals))

\* C29: in every result of analyzeBreakout, signals holds labels of the rule
\* table, each once and in the table's order, and breakoutScore is the sum
\* of the weights of these labels, and of 10 more when ema200Required is
\* false, at most 100.
C29_SignalsAndWaiverAccountForScore ==
  Analysed =>
    /\ InTableOrder(lib.result.signals)
    /\ lib.result.breakoutScore
         = Min2(100, PointsOfAll(lib.result.signals)
                     + (IF Ema200Waived THEN 10 ELSE 0))

\* a candidate by the 10 points of the waived condition
C29_Witness ==
  /\ Analysed
  /\ Ema200Waived
  /\ Len(lib.result.signals) >= 4
  /\ PointsOfAll(lib.result.signals) < 70
  /\ lib.result.isBreakoutCandidate

(***************************************************************************)
(* Properties of the alignment of the timeframes                           *)
(***************************************************************************)
\* the signal call has made its multi-timeframe analysis
MtfAnalysed == sg.pc = "returned" /\ sg.mtfAnalysis # Null

\* C30: in every result of multiTimeframeAnalysis with alignmentScore >= 4
\* the daily analysis is a candidate (dailyScore >= 70) and so is the hourly
\* or the four-hour one; so a confirmed breakout has dailyScore >= 70, and
\* so has every signal emitted under a minAlignmentScore of 4 or more.
C30_AlignedMeansDailyCandidate ==
  /\ (MtfAnalysed /\ sg.mtfAnalysis.alignmentScore >= 4) =>
        /\ sg.mtfAnalysis.dailyScore >= 70
        /\ sg.mtfAnalysis.hourlyScore >= 70 \/ sg.mtfAnalysis.fourHourScore >= 70
  /\ (MtfAnalysed /\ sg.mtfAnalysis.isConfirmedBreakout) =>
        sg.mtfAnalysis.dailyScore >= 70
  /\ (Emitted /\ SignalConfig(sg.options).minAlignmentScore >= 4) =>
        sg.result.mtfAnalysis.dailyScore >= 70

\* a signal emitted on the daily and the hourly candidate alone
C30_Witness ==
  /\ Emitted
  /\ SignalConfig(sg.options).minAlignmentScore >= 4
  /\ sg.mtfAnalysis.alignmentScore = 4
  /\ sg.mtfAnalysis.isConfirmedBreakout
  /\ sg.mtfAnalysis.fourHourScore < 70
  /\ sg.result.mtfAnalysis.dailyScore >= 70
====
